---- MODULE Spec2Model ----
(***************************************************************************)
(* State-machine model of the PrivateFreightBiddingEnhanced contract       *)
(* (examples/freight-bidding/contracts/PrivateFreightBiddingEnhanced.sol). *)
(*                                                                         *)
(* A transaction that reverts changes nothing and emits nothing, so every  *)
(* action below is one SUCCESSFUL call: its guard is the conjunction of    *)
(* the modifiers and require statements of the function, its update is the *)
(* function body.  A call fails exactly when its action is not enabled.     *)
(*                                                                         *)
(* The module also models the basic PrivateFreightBidding contract, which  *)
(* has the same storage layout for jobs and bids, and three pieces of the  *)
(* client code: the rate limiter checkRateLimit, the cached instance of    *)
(* getFhevmInstance and the React hook useFhevm.  An await is a point      *)
(* where other code runs, so every asynchronous function is one action per *)
(* synchronous stretch.                                                    *)
(***************************************************************************)
EXTENDS Integers, Sequences, FiniteSets, TLC

\* ---------------------------------------------------------------- bounds
MaxJobs == 1
MaxRequests == 2
MaxTicks == 2
MaxPlain == 1
ScenarioJobs == 2
MaxClock == 3
MaxCalls == 3
MaxEffects == 3

\* ------------------------------------------------------ program constants
HOUR == 3600
DAY == 86400
MinBiddingDuration == 1 * HOUR
MaxBiddingDuration == 7 * DAY
JobDeadlineSpan == 30 * DAY
RevealWindow == 1 * HOUR
InitialRating == 100
MinReliability == 50
\* Documented resource caps (README, Enterprise Security).
MaxBidsPerJob == 100
MaxJobsPerShipper == 50
\* Chain ids known to the SDK (constants.ts).
FHEVM_SEPOLIA == 8009
SEPOLIA == 11155111
MAINNET == 1
LOCAL_CHAIN == 31337

\* -------------------------------------------------------------- addresses
Zero == "0x0"
This == "this"
Deployer == "owner"
GatewayAddr == "gateway"
Users == {"owner", "s1", "c1", "x", "gateway"}
ScenarioCarriers == {"c1", "c2"}
AllAddr == Users \cup ScenarioCarriers \cup {Zero, This}
ShipperInputs == {"s1", Zero}
CarrierInputs == {"c1", Zero}
PauserInputs == {"s1", Zero}
GranteeInputs == {"x"}

JobIds == 1..MaxJobs
JobKeys == 0..MaxJobs
RequestKeys == 0..MaxRequests
Plain == 0..MaxPlain
StringInputs == {"", "NYC"}
DurationInputs == {MinBiddingDuration - 1, MinBiddingDuration, MaxBiddingDuration + 1}
BidInputs == [price: Plain, deliveryDays: {MaxPlain}, reliability: {MaxPlain}, isExpress: {TRUE}]
JobInputs == [weight: {MaxPlain}, volume: {MaxPlain}, isUrgent: {FALSE}]

\* ------------------------------------------------------ ciphertext handles
Handle(k, j, c) == [k |-> k, j |-> j, c |-> c]
NoHandle == Handle("none", 0, Zero)
BidFields == {"price", "deliveryDays", "reliability", "isExpress"}
JobFields == {"weight", "volume", "isUrgent"}

VARIABLES owner, pauser, paused, jobCounter,
          totalBidsSubmitted, totalJobsCompleted, totalActiveCarriers,
          freightJobs, jobBids, jobBidders, jobWinners,
          carrierProfiles, shipperProfiles,
          callbackJobIds, callbackCarriers, callbackTypes,
          acl, cipher, requestCounter, requestDeadline,
          now

\* Storage of the basic PrivateFreightBidding contract that the enhanced
\* contract does not have.
VARIABLES verifiedCarriers, verifiedShippers

\* checkRateLimit: the module-level map, the wall clock Date.now(), and a
\* record of the calls made (admitted timestamps per key, the last call).
VARIABLES requestTimestamps, dateNow, admitted, lastCall

\* getFhevmInstance: the cached instance, the invocations made so far, and
\* the instances created and handed out since the last reset.
VARIABLES fhevmInstance, calls, createdSinceReset, returnedSinceReset

\* useFhevm: the config prop, the three state cells, the effect runs, and
\* whether the component is mounted.
VARIABLES config, fhevm, isReady, error, effects, mounted

\* History of the circuit breaker: while the contract is paused, the jobs,
\* bids, profiles, ACLs and pending requests as they were when pause() ran.
VARIABLES beforePause

contractVars == <<owner, pauser, paused, jobCounter,
                  totalBidsSubmitted, totalJobsCompleted, totalActiveCarriers,
                  freightJobs, jobBids, jobBidders, jobWinners,
                  carrierProfiles, shipperProfiles,
                  callbackJobIds, callbackCarriers, callbackTypes>>
fheVars == <<acl, cipher>>
gatewayVars == <<requestCounter, requestDeadline>>
basicVars == <<verifiedCarriers, verifiedShippers>>
rateVars == <<requestTimestamps, dateNow, admitted, lastCall>>
singletonVars == <<fhevmInstance, calls, createdSinceReset, returnedSinceReset>>
hookVars == <<config, fhevm, isReady, error, effects, mounted>>
historyVars == <<beforePause>>
otherVars == <<basicVars, rateVars, singletonVars, hookVars, historyVars>>
vars == <<contractVars, fheVars, gatewayVars, now, otherVars>>

\* ------------------------------------------------------- default records
EmptyJob ==
  [origin |-> "", destination |-> "", cargoType |-> "",
   encryptedWeight |-> NoHandle, encryptedVolume |-> NoHandle,
   deadline |-> 0, biddingEndTime |-> 0, shipper |-> Zero, status |-> "Open",
   encryptedFinalPrice |-> NoHandle, revealedFinalPrice |-> 0,
   isPriceRevealed |-> FALSE, isUrgent |-> NoHandle, urgentRevealed |-> FALSE,
   createdAt |-> 0]

EmptyBid ==
  [encryptedPrice |-> NoHandle, encryptedDeliveryDays |-> NoHandle,
   encryptedReliabilityScore |-> NoHandle, isExpressService |-> NoHandle,
   hasSubmitted |-> FALSE, isRevealed |-> FALSE, revealedPrice |-> 0,
   revealedDeliveryDays |-> 0, revealedReliability |-> 0,
   revealedExpress |-> FALSE, timestamp |-> 0,
   evaluationStatus |-> "Pending", carrier |-> Zero]

EmptyCarrierProfile ==
  [isVerified |-> FALSE, totalBids |-> 0, wonBids |-> 0, completedJobs |-> 0,
   encryptedRating |-> NoHandle, joinedAt |-> 0, isActive |-> FALSE]

EmptyShipperProfile ==
  [isVerified |-> FALSE, totalJobsPosted |-> 0, totalJobsCompleted |-> 0,
   joinedAt |-> 0, isActive |-> FALSE]


\* ------------------------------------------------------ client-side state
\* JavaScript null where an instance is expected, in the shape of an instance
\* of no chain, and where an Error is expected.
Null == [chainId |-> 0, publicKey |-> "", serial |-> 0]
\* The config prop before the first render; an absent publicKey is "".
NoConfig == [chainId |-> 0, publicKey |-> ""]
NoError == "null"
RateKeys == {"bid", "job"}
NoCall == [key |-> "none", maxRequests |-> 0, windowMs |-> 0, result |-> FALSE]

\* Module load of the client code, and the hook before its first render.
ClientInit ==
  /\ requestTimestamps = [k \in RateKeys |-> <<>>]
  /\ dateNow = 0
  /\ admitted = [k \in RateKeys |-> <<>>]
  /\ lastCall = NoCall
  /\ fhevmInstance = Null
  /\ calls = <<>>
  /\ createdSinceReset = 0
  /\ returnedSinceReset = {}
  /\ config = NoConfig
  /\ fhevm = Null
  /\ isReady = FALSE
  /\ error = NoError
  /\ effects = <<>>
  /\ mounted = "never"

\* ------------------------------------------------------------ constructor
\* What a pause is meant to freeze, and the history cell outside a pause.
PauseScope ==
  <<freightJobs, jobBids, jobBidders, jobWinners, carrierProfiles,
    shipperProfiles, acl, callbackJobIds, callbackCarriers, callbackTypes>>
NotPaused == <<>>

InitWith(jobKeys) ==
  /\ beforePause = NotPaused
  /\ verifiedCarriers = [a \in AllAddr |-> FALSE]
  /\ verifiedShippers = [a \in AllAddr |-> FALSE]
  /\ ClientInit
  /\ owner = Deployer
  /\ pauser = Deployer
  /\ paused = FALSE
  /\ jobCounter = 0
  /\ totalBidsSubmitted = 0
  /\ totalJobsCompleted = 0
  /\ totalActiveCarriers = 0
  /\ freightJobs = [j \in jobKeys |-> EmptyJob]
  /\ jobBids = [j \in jobKeys |-> [a \in AllAddr |-> EmptyBid]]
  /\ jobBidders = [j \in jobKeys |-> <<>>]
  /\ jobWinners = [j \in jobKeys |-> Zero]
  /\ carrierProfiles = [a \in AllAddr |-> EmptyCarrierProfile]
  /\ shipperProfiles = [a \in AllAddr |-> EmptyShipperProfile]
  /\ callbackJobIds = [r \in RequestKeys |-> 0]
  /\ callbackCarriers = [r \in RequestKeys |-> Zero]
  /\ callbackTypes = [r \in RequestKeys |-> "RevealJobPrice"]
  /\ acl = << >>
  /\ cipher = << >>
  /\ requestCounter = 0
  /\ requestDeadline = [r \in RequestKeys |-> 0]
  /\ now = 0

Init == InitWith(JobKeys)

\* --------------------------------------------------------------- modifiers
onlyOwner(sender) == sender = owner
\* Mutant: every verified shipper may operate the breaker.
onlyPauser_OrShipper(sender) ==
  sender = pauser \/ sender = owner \/ shipperProfiles[sender].isVerified
onlyPauser(sender) == sender = pauser \/ sender = owner
whenNotPaused == ~paused
whenPaused == paused
onlyVerifiedShipper(sender) ==
  shipperProfiles[sender].isVerified /\ shipperProfiles[sender].isActive
onlyVerifiedCarrier(sender) ==
  carrierProfiles[sender].isVerified /\ carrierProfiles[sender].isActive
validJobId(jobId) == jobId > 0 /\ jobId <= jobCounter
\* Mutant: the job-ownership check is dropped.
onlyJobShipper_Anyone(sender, jobId) == sender \in Users
\* Mutant: the owner passes the job-ownership check as well.
onlyJobShipper_OrOwner(sender, jobId) ==
  freightJobs[jobId].shipper = sender \/ sender = owner
onlyJobShipper(sender, jobId) == freightJobs[jobId].shipper = sender
\* Mutant: the status check is dropped.
jobInStatus_AnyStatus(jobId, status) == jobId \in JobKeys
jobInStatus(jobId, status) == freightJobs[jobId].status = status
\* Mutant: the callback is open to every caller.
onlyGateway_Anyone(sender) == sender \in Users
onlyGateway(sender) == sender = GatewayAddr

\* -------------------------------------------------- FHE library (ACL part)
\* FHE.asEuintXX / FHE.asEbool: a new handle whose persistent ACL is empty.
NewCipher(h, v) == (h :> v) @@ cipher
NewAcl(h) == (h :> {}) @@ acl
\* FHE.allow(h, a) / FHE.allowThis(h) on a table t.
Allow(t, hs, as) == [h \in DOMAIN t |-> IF h \in hs THEN t[h] \cup as ELSE t[h]]

\* ---------------------------------------------------------- admin functions
\* Mutant: an account that is already verified can be verified again.
verifyCarrier_AllowsReverify(sender, _carrier) ==
  /\ onlyOwner(sender)
  /\ whenNotPaused
  /\ _carrier # Zero
  /\ LET rating == Handle("rating", 0, _carrier) IN
     /\ totalActiveCarriers' = totalActiveCarriers + 1
     /\ carrierProfiles' = [carrierProfiles EXCEPT ![_carrier] =
          [isVerified |-> TRUE, totalBids |-> 0, wonBids |-> 0,
           completedJobs |-> 0, encryptedRating |-> rating,
           joinedAt |-> now, isActive |-> TRUE]]
     /\ cipher' = NewCipher(rating, InitialRating)
     /\ acl' = NewAcl(rating)
  /\ UNCHANGED <<owner, pauser, paused, jobCounter, totalBidsSubmitted,
                 totalJobsCompleted, freightJobs, jobBids, jobBidders,
                 jobWinners, shipperProfiles, callbackJobIds,
                 callbackCarriers, callbackTypes, gatewayVars, now,
                 otherVars>>

verifyCarrier(sender, _carrier) ==
  /\ onlyOwner(sender)
  /\ whenNotPaused
  /\ _carrier # Zero
  /\ ~carrierProfiles[_carrier].isVerified
  /\ LET rating == Handle("rating", 0, _carrier) IN
     /\ totalActiveCarriers' = totalActiveCarriers + 1
     /\ carrierProfiles' = [carrierProfiles EXCEPT ![_carrier] =
          [isVerified |-> TRUE, totalBids |-> 0, wonBids |-> 0,
           completedJobs |-> 0, encryptedRating |-> rating,
           joinedAt |-> now, isActive |-> TRUE]]
     /\ cipher' = NewCipher(rating, InitialRating)
     /\ acl' = NewAcl(rating)
  /\ UNCHANGED <<owner, pauser, paused, jobCounter, totalBidsSubmitted,
                 totalJobsCompleted, freightJobs, jobBids, jobBidders,
                 jobWinners, shipperProfiles, callbackJobIds,
                 callbackCarriers, callbackTypes, gatewayVars, now,
                 otherVars>>

\* Mutant: a shipper that is already verified can be verified again.
verifyShipper_AllowsReverify(sender, _shipper) ==
  /\ onlyOwner(sender)
  /\ whenNotPaused
  /\ _shipper # Zero
  /\ shipperProfiles' = [shipperProfiles EXCEPT ![_shipper] =
       [isVerified |-> TRUE, totalJobsPosted |-> 0, totalJobsCompleted |-> 0,
        joinedAt |-> now, isActive |-> TRUE]]
  /\ UNCHANGED <<owner, pauser, paused, jobCounter, totalBidsSubmitted,
                 totalJobsCompleted, totalActiveCarriers, freightJobs, jobBids,
                 jobBidders, jobWinners, carrierProfiles, callbackJobIds,
                 callbackCarriers, callbackTypes, fheVars, gatewayVars, now,
                 otherVars>>

verifyShipper(sender, _shipper) ==
  /\ onlyOwner(sender)
  /\ whenNotPaused
  /\ _shipper # Zero
  /\ ~shipperProfiles[_shipper].isVerified
  /\ shipperProfiles' = [shipperProfiles EXCEPT ![_shipper] =
       [isVerified |-> TRUE, totalJobsPosted |-> 0, totalJobsCompleted |-> 0,
        joinedAt |-> now, isActive |-> TRUE]]
  /\ UNCHANGED <<owner, pauser, paused, jobCounter, totalBidsSubmitted,
                 totalJobsCompleted, totalActiveCarriers, freightJobs, jobBids,
                 jobBidders, jobWinners, carrierProfiles, callbackJobIds,
                 callbackCarriers, callbackTypes, fheVars, gatewayVars, now,
                 otherVars>>

\* Mutant: a carrier that is already inactive can be deactivated again.
deactivateCarrier_NoActiveCheck(sender, _carrier) ==
  /\ onlyOwner(sender)
  /\ carrierProfiles[_carrier].isVerified
  /\ carrierProfiles' = [carrierProfiles EXCEPT ![_carrier].isActive = FALSE]
  /\ totalActiveCarriers' = totalActiveCarriers - 1
  /\ UNCHANGED <<owner, pauser, paused, jobCounter, totalBidsSubmitted,
                 totalJobsCompleted, freightJobs, jobBids, jobBidders,
                 jobWinners, shipperProfiles, callbackJobIds,
                 callbackCarriers, callbackTypes, fheVars, gatewayVars, now,
                 otherVars>>

deactivateCarrier(sender, _carrier) ==
  /\ onlyOwner(sender)
  /\ carrierProfiles[_carrier].isVerified
  /\ carrierProfiles[_carrier].isActive
  /\ carrierProfiles' = [carrierProfiles EXCEPT ![_carrier].isActive = FALSE]
  /\ totalActiveCarriers' = totalActiveCarriers - 1
  /\ UNCHANGED <<owner, pauser, paused, jobCounter, totalBidsSubmitted,
                 totalJobsCompleted, freightJobs, jobBids, jobBidders,
                 jobWinners, shipperProfiles, callbackJobIds,
                 callbackCarriers, callbackTypes, fheVars, gatewayVars, now,
                 otherVars>>

deactivateShipper(sender, _shipper) ==
  /\ onlyOwner(sender)
  /\ shipperProfiles[_shipper].isVerified
  /\ shipperProfiles[_shipper].isActive
  /\ shipperProfiles' = [shipperProfiles EXCEPT ![_shipper].isActive = FALSE]
  /\ UNCHANGED <<owner, pauser, paused, jobCounter, totalBidsSubmitted,
                 totalJobsCompleted, totalActiveCarriers, freightJobs, jobBids,
                 jobBidders, jobWinners, carrierProfiles, callbackJobIds,
                 callbackCarriers, callbackTypes, fheVars, gatewayVars, now,
                 otherVars>>

setPauser(sender, _newPauser) ==
  /\ onlyOwner(sender)
  /\ _newPauser # Zero
  /\ pauser' = _newPauser
  /\ UNCHANGED <<owner, paused, jobCounter, totalBidsSubmitted,
                 totalJobsCompleted, totalActiveCarriers, freightJobs, jobBids,
                 jobBidders, jobWinners, carrierProfiles, shipperProfiles,
                 callbackJobIds, callbackCarriers, callbackTypes,
                 fheVars, gatewayVars, now, otherVars>>

pause(sender) ==
  /\ onlyPauser(sender)
  /\ whenNotPaused
  /\ paused' = TRUE
  /\ beforePause' = PauseScope
  /\ UNCHANGED <<owner, pauser, jobCounter, totalBidsSubmitted,
                 totalJobsCompleted, totalActiveCarriers, freightJobs, jobBids,
                 jobBidders, jobWinners, carrierProfiles, shipperProfiles,
                 callbackJobIds, callbackCarriers, callbackTypes,
                 fheVars, gatewayVars, now, basicVars, rateVars,
                 singletonVars, hookVars>>

unpause(sender) ==
  /\ onlyPauser(sender)
  /\ whenPaused
  /\ paused' = FALSE
  /\ beforePause' = NotPaused
  /\ UNCHANGED <<owner, pauser, jobCounter, totalBidsSubmitted,
                 totalJobsCompleted, totalActiveCarriers, freightJobs, jobBids,
                 jobBidders, jobWinners, carrierProfiles, shipperProfiles,
                 callbackJobIds, callbackCarriers, callbackTypes,
                 fheVars, gatewayVars, now, basicVars, rateVars,
                 singletonVars, hookVars>>

\* ------------------------------------------------------ core freight functions
\* Mutant: the counter is read without being incremented, so that the last
\* id is handed out again.
postJob_ReusesId(sender, _origin, _destination, _cargoType, in, _biddingDuration) ==
  /\ onlyVerifiedShipper(sender)
  /\ whenNotPaused
  /\ _origin # ""
  /\ _destination # ""
  /\ _biddingDuration >= MinBiddingDuration
  /\ _biddingDuration <= MaxBiddingDuration
  /\ LET id == IF jobCounter = 0 THEN 1 ELSE jobCounter
         weight == Handle("weight", id, Zero)
         volume == Handle("volume", id, Zero)
         urgent == Handle("isUrgent", id, Zero)
         final == Handle("finalPrice", id, Zero)
     IN
     /\ jobCounter' = id
     /\ freightJobs' = [freightJobs EXCEPT ![id] =
          [origin |-> _origin, destination |-> _destination,
           cargoType |-> _cargoType, encryptedWeight |-> weight,
           encryptedVolume |-> volume, deadline |-> now + JobDeadlineSpan,
           biddingEndTime |-> now + _biddingDuration, shipper |-> sender,
           status |-> "Open", encryptedFinalPrice |-> final,
           revealedFinalPrice |-> 0, isPriceRevealed |-> FALSE,
           isUrgent |-> urgent, urgentRevealed |-> FALSE, createdAt |-> now]]
     /\ cipher' = (weight :> in.weight) @@ (volume :> in.volume) @@
                  (urgent :> in.isUrgent) @@ (final :> 0) @@ cipher
     /\ acl' = (weight :> {This, sender}) @@ (volume :> {This, sender}) @@
               (urgent :> {This, sender}) @@ (final :> {}) @@ acl
     /\ shipperProfiles' =
          [shipperProfiles EXCEPT ![sender].totalJobsPosted = @ + 1]
  /\ UNCHANGED <<owner, pauser, paused, totalBidsSubmitted, totalJobsCompleted,
                 totalActiveCarriers, jobBids, jobBidders, jobWinners,
                 carrierProfiles, callbackJobIds, callbackCarriers,
                 callbackTypes, gatewayVars, now, otherVars>>

postJob(sender, _origin, _destination, _cargoType, in, _biddingDuration) ==
  /\ onlyVerifiedShipper(sender)
  /\ whenNotPaused
  /\ _origin # ""
  /\ _destination # ""
  /\ _biddingDuration >= MinBiddingDuration
  /\ _biddingDuration <= MaxBiddingDuration
  /\ LET id == jobCounter + 1
         weight == Handle("weight", id, Zero)
         volume == Handle("volume", id, Zero)
         urgent == Handle("isUrgent", id, Zero)
         final == Handle("finalPrice", id, Zero)
     IN
     /\ jobCounter' = id
     /\ freightJobs' = [freightJobs EXCEPT ![id] =
          [origin |-> _origin, destination |-> _destination,
           cargoType |-> _cargoType, encryptedWeight |-> weight,
           encryptedVolume |-> volume, deadline |-> now + JobDeadlineSpan,
           biddingEndTime |-> now + _biddingDuration, shipper |-> sender,
           status |-> "Open", encryptedFinalPrice |-> final,
           revealedFinalPrice |-> 0, isPriceRevealed |-> FALSE,
           isUrgent |-> urgent, urgentRevealed |-> FALSE, createdAt |-> now]]
     /\ cipher' = (weight :> in.weight) @@ (volume :> in.volume) @@
                  (urgent :> in.isUrgent) @@ (final :> 0) @@ cipher
     /\ acl' = (weight :> {This, sender}) @@ (volume :> {This, sender}) @@
               (urgent :> {This, sender}) @@ (final :> {}) @@ acl
     /\ shipperProfiles' =
          [shipperProfiles EXCEPT ![sender].totalJobsPosted = @ + 1]
  /\ UNCHANGED <<owner, pauser, paused, totalBidsSubmitted, totalJobsCompleted,
                 totalActiveCarriers, jobBids, jobBidders, jobWinners,
                 carrierProfiles, callbackJobIds, callbackCarriers,
                 callbackTypes, gatewayVars, now, otherVars>>

\* Mutant: submitBid does not check for an earlier bid of the same carrier.
submitBidRequires_NoDuplicateCheck(sender, _jobId) ==
  /\ now < freightJobs[_jobId].biddingEndTime
  /\ sender # freightJobs[_jobId].shipper

\* Mutant: the deadline comparison admits the deadline instant itself.
submitBidRequires_NonStrictDeadline(sender, _jobId) ==
  /\ now <= freightJobs[_jobId].biddingEndTime
  /\ ~jobBids[_jobId][sender].hasSubmitted
  /\ sender # freightJobs[_jobId].shipper

submitBidRequires(sender, _jobId) ==
  /\ now < freightJobs[_jobId].biddingEndTime
  /\ ~jobBids[_jobId][sender].hasSubmitted
  /\ sender # freightJobs[_jobId].shipper

submitBid(sender, _jobId, in) ==
  /\ validJobId(_jobId)
  /\ onlyVerifiedCarrier(sender)
  /\ whenNotPaused
  /\ jobInStatus(_jobId, "Open")
  /\ submitBidRequires(sender, _jobId)
  /\ LET price == Handle("price", _jobId, sender)
         deliveryDays == Handle("deliveryDays", _jobId, sender)
         reliability == Handle("reliability", _jobId, sender)
         isExpress == Handle("isExpress", _jobId, sender)
         granted == {This, freightJobs[_jobId].shipper}
     IN
     /\ jobBids' = [jobBids EXCEPT ![_jobId][sender] =
          [encryptedPrice |-> price, encryptedDeliveryDays |-> deliveryDays,
           encryptedReliabilityScore |-> reliability,
           isExpressService |-> isExpress, hasSubmitted |-> TRUE,
           isRevealed |-> FALSE, revealedPrice |-> 0,
           revealedDeliveryDays |-> 0, revealedReliability |-> 0,
           revealedExpress |-> FALSE, timestamp |-> now,
           evaluationStatus |-> "Pending", carrier |-> sender]]
     /\ jobBidders' = [jobBidders EXCEPT ![_jobId] = Append(@, sender)]
     /\ cipher' = (price :> in.price) @@ (deliveryDays :> in.deliveryDays) @@
                  (reliability :> in.reliability) @@
                  (isExpress :> in.isExpress) @@ cipher
     /\ acl' = (price :> granted) @@ (deliveryDays :> granted) @@
               (reliability :> granted) @@ (isExpress :> granted) @@ acl
  /\ carrierProfiles' = [carrierProfiles EXCEPT ![sender].totalBids = @ + 1]
  /\ totalBidsSubmitted' = totalBidsSubmitted + 1
  /\ UNCHANGED <<owner, pauser, paused, jobCounter, totalJobsCompleted,
                 totalActiveCarriers, freightJobs, jobWinners, shipperProfiles,
                 callbackJobIds, callbackCarriers, callbackTypes,
                 gatewayVars, now, otherVars>>

\* Mutant: bidding can be closed on a job without bids.
closeBidding_NoBidCheck(sender, _jobId) ==
  /\ validJobId(_jobId)
  /\ onlyJobShipper(sender, _jobId)
  /\ jobInStatus(_jobId, "Open")
  /\ whenNotPaused
  /\ freightJobs' = [freightJobs EXCEPT ![_jobId].status = "BiddingClosed"]
  /\ UNCHANGED <<owner, pauser, paused, jobCounter, totalBidsSubmitted,
                 totalJobsCompleted, totalActiveCarriers, jobBids, jobBidders,
                 jobWinners, carrierProfiles, shipperProfiles, callbackJobIds,
                 callbackCarriers, callbackTypes, fheVars, gatewayVars, now,
                 otherVars>>

closeBidding(sender, _jobId) ==
  /\ validJobId(_jobId)
  /\ onlyJobShipper(sender, _jobId)
  /\ jobInStatus(_jobId, "Open")
  /\ whenNotPaused
  /\ Len(jobBidders[_jobId]) > 0
  /\ freightJobs' = [freightJobs EXCEPT ![_jobId].status = "BiddingClosed"]
  /\ UNCHANGED <<owner, pauser, paused, jobCounter, totalBidsSubmitted,
                 totalJobsCompleted, totalActiveCarriers, jobBids, jobBidders,
                 jobWinners, carrierProfiles, shipperProfiles, callbackJobIds,
                 callbackCarriers, callbackTypes, fheVars, gatewayVars, now,
                 otherVars>>

\* ------------------------------------------------- reveal protocol (Gateway)
\* Solidity delete m[k]: the entry returns to the zero value of its type.
\* Mutant: the cleanup at the end of the callback is forgotten.
Delete_Kept(m, k, zero) == m
Delete(m, k, zero) == [m EXCEPT ![k] = zero]

Pending(requestId) == callbackTypes[requestId] = "RevealBidPrice"

\* Mutant: a reveal can be requested while bidding is still open.
requestBidPriceRevealRequires_NoWindowCheck(_jobId, _carrier) ==
  /\ jobBids[_jobId][_carrier].hasSubmitted
  /\ ~jobBids[_jobId][_carrier].isRevealed

requestBidPriceRevealRequires(_jobId, _carrier) ==
  /\ jobBids[_jobId][_carrier].hasSubmitted
  /\ ~jobBids[_jobId][_carrier].isRevealed
  /\ \/ freightJobs[_jobId].status = "BiddingClosed"
     \/ now >= freightJobs[_jobId].biddingEndTime

requestBidPriceReveal(sender, _jobId, _carrier) ==
  /\ validJobId(_jobId)
  /\ onlyJobShipper(sender, _jobId)
  /\ whenNotPaused
  /\ requestBidPriceRevealRequires(_jobId, _carrier)
  /\ LET requestId == requestCounter IN
     /\ requestCounter' = requestCounter + 1
     /\ requestDeadline' = [requestDeadline EXCEPT ![requestId] = now + RevealWindow]
     /\ callbackJobIds' = [callbackJobIds EXCEPT ![requestId] = _jobId]
     /\ callbackCarriers' = [callbackCarriers EXCEPT ![requestId] = _carrier]
     /\ callbackTypes' = [callbackTypes EXCEPT ![requestId] = "RevealBidPrice"]
  /\ UNCHANGED <<owner, pauser, paused, jobCounter, totalBidsSubmitted,
                 totalJobsCompleted, totalActiveCarriers, freightJobs, jobBids,
                 jobBidders, jobWinners, carrierProfiles, shipperProfiles,
                 fheVars, now, otherVars>>

callbackBidPriceReveal(sender, requestId, decryptedPrice) ==
  /\ onlyGateway(sender)
  /\ Pending(requestId)
  /\ LET jobId == callbackJobIds[requestId]
         carrier == callbackCarriers[requestId]
     IN
     /\ jobBids[jobId][carrier].hasSubmitted
     /\ jobBids' = [jobBids EXCEPT ![jobId][carrier] =
          [@ EXCEPT !.isRevealed = TRUE, !.revealedPrice = decryptedPrice,
                    !.evaluationStatus = "UnderReview"]]
  /\ callbackJobIds' = Delete(callbackJobIds, requestId, 0)
  /\ callbackCarriers' = Delete(callbackCarriers, requestId, Zero)
  /\ callbackTypes' = Delete(callbackTypes, requestId, "RevealJobPrice")
  /\ UNCHANGED <<owner, pauser, paused, jobCounter, totalBidsSubmitted,
                 totalJobsCompleted, totalActiveCarriers, freightJobs,
                 jobBidders, jobWinners, carrierProfiles, shipperProfiles,
                 fheVars, gatewayVars, now, otherVars>>

\* ------------------------------------------------------------ award / finish
\* Mutant: awardJob does not require the bid to be revealed.
awardJobRequires_NoReveal(_jobId, _carrier) ==
  /\ freightJobs[_jobId].status = "BiddingClosed"
  /\ jobBids[_jobId][_carrier].hasSubmitted

awardJobRequires(_jobId, _carrier) ==
  /\ freightJobs[_jobId].status = "BiddingClosed"
  /\ jobBids[_jobId][_carrier].hasSubmitted
  /\ jobBids[_jobId][_carrier].isRevealed

\* Mutant: the revealed price is not copied onto the job.
awardJob_KeepsFinalPrice(sender, _jobId, _carrier) ==
  /\ validJobId(_jobId)
  /\ onlyJobShipper(sender, _jobId)
  /\ whenNotPaused
  /\ awardJobRequires(_jobId, _carrier)
  /\ freightJobs' = [freightJobs EXCEPT ![_jobId] =
       [@ EXCEPT !.status = "Awarded",
                 !.encryptedFinalPrice = jobBids[_jobId][_carrier].encryptedPrice,
                 !.isPriceRevealed = TRUE]]
  /\ jobWinners' = [jobWinners EXCEPT ![_jobId] = _carrier]
  /\ jobBids' = [jobBids EXCEPT ![_jobId][_carrier].evaluationStatus = "Approved"]
  /\ carrierProfiles' = [carrierProfiles EXCEPT ![_carrier].wonBids = @ + 1]
  /\ UNCHANGED <<owner, pauser, paused, jobCounter, totalBidsSubmitted,
                 totalJobsCompleted, totalActiveCarriers, jobBidders,
                 shipperProfiles, callbackJobIds, callbackCarriers,
                 callbackTypes, fheVars, gatewayVars, now, otherVars>>

\* Mutant: every bid of the job is marked Approved, not only the winner's.
awardJob_ApprovesAll(sender, _jobId, _carrier) ==
  /\ validJobId(_jobId)
  /\ onlyJobShipper(sender, _jobId)
  /\ whenNotPaused
  /\ awardJobRequires(_jobId, _carrier)
  /\ freightJobs' = [freightJobs EXCEPT ![_jobId] =
       [@ EXCEPT !.status = "Awarded",
                 !.encryptedFinalPrice = jobBids[_jobId][_carrier].encryptedPrice,
                 !.revealedFinalPrice = jobBids[_jobId][_carrier].revealedPrice,
                 !.isPriceRevealed = TRUE]]
  /\ jobWinners' = [jobWinners EXCEPT ![_jobId] = _carrier]
  /\ jobBids' = [jobBids EXCEPT ![_jobId] =
       [a \in DOMAIN @ |-> IF @[a].hasSubmitted
                             THEN [@[a] EXCEPT !.evaluationStatus = "Approved"]
                             ELSE @[a]]]
  /\ carrierProfiles' = [carrierProfiles EXCEPT ![_carrier].wonBids = @ + 1]
  /\ UNCHANGED <<owner, pauser, paused, jobCounter, totalBidsSubmitted,
                 totalJobsCompleted, totalActiveCarriers, jobBidders,
                 shipperProfiles, callbackJobIds, callbackCarriers,
                 callbackTypes, fheVars, gatewayVars, now, otherVars>>

awardJob(sender, _jobId, _carrier) ==
  /\ validJobId(_jobId)
  /\ onlyJobShipper(sender, _jobId)
  /\ whenNotPaused
  /\ awardJobRequires(_jobId, _carrier)
  /\ freightJobs' = [freightJobs EXCEPT ![_jobId] =
       [@ EXCEPT !.status = "Awarded",
                 !.encryptedFinalPrice = jobBids[_jobId][_carrier].encryptedPrice,
                 !.revealedFinalPrice = jobBids[_jobId][_carrier].revealedPrice,
                 !.isPriceRevealed = TRUE]]
  /\ jobWinners' = [jobWinners EXCEPT ![_jobId] = _carrier]
  /\ jobBids' = [jobBids EXCEPT ![_jobId][_carrier].evaluationStatus = "Approved"]
  /\ carrierProfiles' = [carrierProfiles EXCEPT ![_carrier].wonBids = @ + 1]
  /\ UNCHANGED <<owner, pauser, paused, jobCounter, totalBidsSubmitted,
                 totalJobsCompleted, totalActiveCarriers, jobBidders,
                 shipperProfiles, callbackJobIds, callbackCarriers,
                 callbackTypes, fheVars, gatewayVars, now, otherVars>>

\* Mutant: the global completion counter is not updated.
completeJob_NoGlobalCount(sender, _jobId) ==
  /\ validJobId(_jobId)
  /\ onlyJobShipper(sender, _jobId)
  /\ whenNotPaused
  /\ freightJobs[_jobId].status = "Awarded"
  /\ LET winner == jobWinners[_jobId] IN
     /\ freightJobs' = [freightJobs EXCEPT ![_jobId].status = "Completed"]
     /\ carrierProfiles' = [carrierProfiles EXCEPT ![winner].completedJobs = @ + 1]
     /\ shipperProfiles' =
          [shipperProfiles EXCEPT ![sender].totalJobsCompleted = @ + 1]
  /\ UNCHANGED <<owner, pauser, paused, jobCounter, totalBidsSubmitted,
                 totalJobsCompleted, totalActiveCarriers, jobBids, jobBidders,
                 jobWinners, callbackJobIds, callbackCarriers, callbackTypes,
                 fheVars, gatewayVars, now, otherVars>>

completeJob(sender, _jobId) ==
  /\ validJobId(_jobId)
  /\ onlyJobShipper(sender, _jobId)
  /\ whenNotPaused
  /\ freightJobs[_jobId].status = "Awarded"
  /\ LET winner == jobWinners[_jobId] IN
     /\ freightJobs' = [freightJobs EXCEPT ![_jobId].status = "Completed"]
     /\ carrierProfiles' = [carrierProfiles EXCEPT ![winner].completedJobs = @ + 1]
     /\ shipperProfiles' =
          [shipperProfiles EXCEPT ![sender].totalJobsCompleted = @ + 1]
     /\ totalJobsCompleted' = totalJobsCompleted + 1
  /\ UNCHANGED <<owner, pauser, paused, jobCounter, totalBidsSubmitted,
                 totalActiveCarriers, jobBids, jobBidders, jobWinners,
                 callbackJobIds, callbackCarriers, callbackTypes,
                 fheVars, gatewayVars, now, otherVars>>

\* Mutant: an awarded job can be cancelled as well.
cancelJobRequires_AlsoAwarded(_jobId) ==
  \/ freightJobs[_jobId].status = "Open"
  \/ freightJobs[_jobId].status = "BiddingClosed"
  \/ freightJobs[_jobId].status = "Awarded"

\* Mutant: only an Open job can be cancelled.
cancelJobRequires_OpenOnly(_jobId) ==
  freightJobs[_jobId].status = "Open"

cancelJobRequires(_jobId) ==
  \/ freightJobs[_jobId].status = "Open"
  \/ freightJobs[_jobId].status = "BiddingClosed"

cancelJob(sender, _jobId) ==
  /\ validJobId(_jobId)
  /\ onlyJobShipper(sender, _jobId)
  /\ whenNotPaused
  /\ cancelJobRequires(_jobId)
  /\ freightJobs' = [freightJobs EXCEPT ![_jobId].status = "Cancelled"]
  /\ UNCHANGED <<owner, pauser, paused, jobCounter, totalBidsSubmitted,
                 totalJobsCompleted, totalActiveCarriers, jobBids, jobBidders,
                 jobWinners, carrierProfiles, shipperProfiles, callbackJobIds,
                 callbackCarriers, callbackTypes, fheVars, gatewayVars, now,
                 otherVars>>

\* ------------------------------------------------- permission management
allowBidAccess(sender, _jobId, _carrier, _allowedAddress) ==
  /\ validJobId(_jobId)
  /\ onlyJobShipper(sender, _jobId)
  /\ jobBids[_jobId][_carrier].hasSubmitted
  /\ LET bid == jobBids[_jobId][_carrier] IN
     acl' = Allow(acl, {bid.encryptedPrice, bid.encryptedDeliveryDays,
                        bid.encryptedReliabilityScore, bid.isExpressService},
                  {_allowedAddress})
  /\ UNCHANGED <<contractVars, cipher, gatewayVars, now, otherVars>>

\* --------------------------------------------- FHE library (arithmetic part)
\* Each operator gives the plaintext of the ciphertext the library call
\* returns, from the plaintexts of its operands.
FHE_lt(a, b) == a < b
FHE_gt(a, b) == a > b
FHE_lte(a, b) == a <= b
FHE_gte(a, b) == a >= b
FHE_eq(a, b) == a = b
FHE_or(a, b) == a \/ b
FHE_and(a, b) == a /\ b
FHE_not(a) == ~a
\* FHE.asEuint32(uint32(x)): the conversion keeps the low 32 bits, taken here
\* as two 16-bit halves.
FHE_asEuint32(x) == (x % 65536) + 65536 * ((x \div 65536) % 65536)

\* ------------------------------------------------- encrypted bid comparison
compareBidsEncryptedRequires(sender, _jobId, _carrier1, _carrier2) ==
  /\ validJobId(_jobId)
  /\ onlyJobShipper(sender, _jobId)
  /\ jobBids[_jobId][_carrier1].hasSubmitted
  /\ jobBids[_jobId][_carrier2].hasSubmitted

\* Mutant: a tie on price needs both tie-breakers instead of either.
compareBidsEncrypted_BothTieBreakers(_jobId, _carrier1, _carrier2) ==
  LET bid1 == jobBids[_jobId][_carrier1]
      bid2 == jobBids[_jobId][_carrier2]
      priceBetter == FHE_lt(cipher[bid1.encryptedPrice], cipher[bid2.encryptedPrice])
      deliveryBetter == FHE_lt(cipher[bid1.encryptedDeliveryDays],
                               cipher[bid2.encryptedDeliveryDays])
      reliabilityBetter == FHE_gt(cipher[bid1.encryptedReliabilityScore],
                                  cipher[bid2.encryptedReliabilityScore])
  IN FHE_or(priceBetter,
            FHE_and(FHE_eq(cipher[bid1.encryptedPrice], cipher[bid2.encryptedPrice]),
                    FHE_and(deliveryBetter, reliabilityBetter)))

\* Plaintext of the ebool that compareBidsEncrypted returns.
compareBidsEncrypted(_jobId, _carrier1, _carrier2) ==
  LET bid1 == jobBids[_jobId][_carrier1]
      bid2 == jobBids[_jobId][_carrier2]
      priceBetter == FHE_lt(cipher[bid1.encryptedPrice], cipher[bid2.encryptedPrice])
      deliveryBetter == FHE_lt(cipher[bid1.encryptedDeliveryDays],
                               cipher[bid2.encryptedDeliveryDays])
      reliabilityBetter == FHE_gt(cipher[bid1.encryptedReliabilityScore],
                                  cipher[bid2.encryptedReliabilityScore])
  IN FHE_or(priceBetter,
            FHE_and(FHE_eq(cipher[bid1.encryptedPrice], cipher[bid2.encryptedPrice]),
                    FHE_or(deliveryBetter, reliabilityBetter)))

\* The subtraction job.deadline - block.timestamp is checked arithmetic on
\* unsigned integers: the call reverts when the clock is past the deadline.
checkBidMeetsRequirementsRequires(_jobId, _carrier) ==
  /\ validJobId(_jobId)
  /\ jobBids[_jobId][_carrier].hasSubmitted
  /\ freightJobs[_jobId].deadline >= now

\* Plaintext of the ebool that checkBidMeetsRequirements returns.
checkBidMeetsRequirements(_jobId, _carrier) ==
  LET bid == jobBids[_jobId][_carrier]
      job == freightJobs[_jobId]
      maxDeliveryDays == FHE_asEuint32((job.deadline - now) \div DAY)
      meetsDeadline == FHE_lte(cipher[bid.encryptedDeliveryDays], maxDeliveryDays)
      minReliability == FHE_asEuint32(MinReliability)
      meetsReliability == FHE_gte(cipher[bid.encryptedReliabilityScore], minReliability)
      meetsUrgency == FHE_or(FHE_not(cipher[job.isUrgent]),
                             cipher[bid.isExpressService])
  IN FHE_and(FHE_and(meetsDeadline, meetsReliability), meetsUrgency)

\* ------------------------------------------------------------ view functions
\* getBidInfo has no caller restriction: it returns these fields to anyone.
getBidInfo(_jobId, _carrier) ==
  LET bid == jobBids[_jobId][_carrier] IN
  [hasSubmitted |-> bid.hasSubmitted, isRevealed |-> bid.isRevealed,
   revealedPrice |-> bid.revealedPrice,
   revealedDeliveryDays |-> bid.revealedDeliveryDays,
   revealedReliability |-> bid.revealedReliability,
   revealedExpress |-> bid.revealedExpress,
   evaluationStatus |-> bid.evaluationStatus]

\* ------------------------------------------------------------------- clock
\* block.timestamp advances between transactions.
Tick ==
  /\ now' = now + HOUR
  /\ UNCHANGED <<contractVars, fheVars, gatewayVars, otherVars>>

\* block.timestamp advances by d seconds between two transactions.
Advance(d) ==
  /\ now' = now + d
  /\ UNCHANGED <<contractVars, fheVars, gatewayVars, otherVars>>

\* One disjunct per external function; the counters that the contract leaves
\* unbounded are capped here.
Next ==
  \/ \E sender \in Users, a \in CarrierInputs : verifyCarrier(sender, a)
  \/ \E sender \in Users, a \in ShipperInputs : verifyShipper(sender, a)
  \/ \E sender \in Users, a \in CarrierInputs : deactivateCarrier(sender, a)
  \/ \E sender \in Users, a \in ShipperInputs : deactivateShipper(sender, a)
  \/ \E sender \in Users, a \in PauserInputs : setPauser(sender, a)
  \/ \E sender \in Users : pause(sender)
  \/ \E sender \in Users : unpause(sender)
  \/ /\ jobCounter < MaxJobs
     /\ \E sender \in Users, o \in StringInputs, d \in StringInputs,
           in \in JobInputs, dur \in DurationInputs :
           postJob(sender, o, d, "general", in, dur)
  \/ \E sender \in Users, j \in JobKeys, in \in BidInputs : submitBid(sender, j, in)
  \/ \E sender \in Users, j \in JobKeys : closeBidding(sender, j)
  \/ /\ requestCounter < MaxRequests
     /\ \E sender \in Users, j \in JobKeys, c \in CarrierInputs :
           requestBidPriceReveal(sender, j, c)
  \/ \E sender \in Users, r \in RequestKeys, p \in Plain :
        callbackBidPriceReveal(sender, r, p)
  \/ \E sender \in Users, j \in JobKeys, c \in CarrierInputs : awardJob(sender, j, c)
  \/ \E sender \in Users, j \in JobKeys : completeJob(sender, j)
  \/ \E sender \in Users, j \in JobKeys : cancelJob(sender, j)
  \/ \E sender \in Users, j \in JobKeys, c \in CarrierInputs, a \in GranteeInputs :
        allowBidAccess(sender, j, c, a)
  \/ /\ now < MaxTicks * HOUR
     /\ Tick

Spec == Init /\ [][Next]_vars

\* ------------------------------------------------ identity registry alone
\* The admin functions of the registry, with accounts that the owner may try
\* to verify in both roles.
RoleInputs == {"s1", "c1"}

NextRegistry ==
  \/ \E sender \in Users, a \in RoleInputs : verifyCarrier(sender, a)
  \/ \E sender \in Users, a \in RoleInputs : verifyShipper(sender, a)
  \/ \E sender \in Users, a \in RoleInputs : deactivateCarrier(sender, a)
  \/ \E sender \in Users, a \in RoleInputs : deactivateShipper(sender, a)
  \/ \E sender \in Users : pause(sender)
  \/ \E sender \in Users : unpause(sender)
  \/ /\ now < MaxTicks * HOUR
     /\ Tick

SpecRegistry == Init /\ [][NextRegistry]_vars

\* ------------------------------------------- registry with pauser hand-over
NextBreaker ==
  \/ NextRegistry
  \/ \E sender \in Users, a \in RoleInputs \cup {Zero} : setPauser(sender, a)

SpecBreaker == Init /\ [][NextBreaker]_vars

\* --------------------------------------------- one shipper posting many jobs
\* Job storage large enough for one job more than the documented cap.
CapJobKeys == 0..(MaxJobsPerShipper + 1)

NextCaps ==
  \/ \E sender \in Users, a \in ShipperInputs : verifyShipper(sender, a)
  \/ /\ jobCounter <= MaxJobsPerShipper
     /\ \E sender \in Users, in \in JobInputs :
           postJob(sender, "NYC", "NYC", "general", in, MinBiddingDuration)
  \/ /\ now < MaxTicks * HOUR
     /\ Tick

SpecCaps == InitWith(CapJobKeys) /\ [][NextCaps]_vars

\* ------------------------------------- two carriers bidding, gateway answers
ScenarioJobKeys == 0..ScenarioJobs
ScenarioJobIds == 1..ScenarioJobs
ScenarioSenders == Users \cup ScenarioCarriers
ScenarioPrices == {4800, 5000}
ScenarioBidInputs ==
  [price: ScenarioPrices, deliveryDays: {MaxPlain}, reliability: {MaxPlain},
   isExpress: {TRUE}]

\* What the gateway decrypts for request r: the plaintext of the price handle
\* passed to Gateway.requestDecryption.
Decrypted(r) ==
  cipher[jobBids[callbackJobIds[r]][callbackCarriers[r]].encryptedPrice]

NextScenario ==
  \/ \E sender \in ScenarioSenders, a \in ShipperInputs : verifyShipper(sender, a)
  \/ \E sender \in ScenarioSenders, a \in ScenarioCarriers : verifyCarrier(sender, a)
  \/ /\ jobCounter < ScenarioJobs
     /\ \E sender \in ScenarioSenders, in \in JobInputs :
           postJob(sender, "NYC", "LA", "general", in, MinBiddingDuration)
  \/ \E sender \in ScenarioSenders, j \in ScenarioJobKeys, in \in ScenarioBidInputs :
        submitBid(sender, j, in)
  \/ \E sender \in ScenarioSenders, j \in ScenarioJobKeys : closeBidding(sender, j)
  \/ /\ requestCounter < MaxRequests
     /\ \E sender \in ScenarioSenders, j \in ScenarioJobKeys, c \in ScenarioCarriers :
           requestBidPriceReveal(sender, j, c)
  \/ \E sender \in ScenarioSenders, r \in RequestKeys :
        /\ Pending(r)
        /\ callbackBidPriceReveal(sender, r, Decrypted(r))
  \/ \E sender \in ScenarioSenders, j \in ScenarioJobKeys, c \in ScenarioCarriers :
        awardJob(sender, j, c)

SpecScenario == InitWith(ScenarioJobKeys) /\ [][NextScenario]_vars

\* ------------------------- bids that differ in every field, over many days
CompareBidInputs ==
  [price: {90, 100}, deliveryDays: {29, 30},
   reliability: {MinReliability - 1, MinReliability}, isExpress: BOOLEAN]
CompareJobInputs == [weight: {MaxPlain}, volume: {MaxPlain}, isUrgent: BOOLEAN]

NextCompare ==
  \/ \E sender \in ScenarioSenders, a \in ShipperInputs : verifyShipper(sender, a)
  \/ \E sender \in ScenarioSenders, a \in ScenarioCarriers : verifyCarrier(sender, a)
  \/ /\ jobCounter < MaxJobs
     /\ \E sender \in ScenarioSenders, in \in CompareJobInputs :
           postJob(sender, "NYC", "LA", "general", in, MinBiddingDuration)
  \/ \E sender \in ScenarioSenders, j \in JobKeys, in \in CompareBidInputs :
        submitBid(sender, j, in)
  \/ /\ now < MaxTicks * DAY
     /\ Advance(DAY)
  \/ /\ now < JobDeadlineSpan
     /\ Advance(JobDeadlineSpan)

SpecCompare == Init /\ [][NextCompare]_vars

\* ------------------------------- the same run carried on to the end of jobs
NextLifecycle ==
  \/ NextScenario
  \/ \E sender \in ScenarioSenders, j \in ScenarioJobKeys : completeJob(sender, j)
  \/ \E sender \in ScenarioSenders, j \in ScenarioJobKeys : cancelJob(sender, j)

SpecLifecycle == InitWith(ScenarioJobKeys) /\ [][NextLifecycle]_vars

\* =========================================== basic PrivateFreightBidding
\* The basic contract keeps owner, jobCounter, freightJobs, jobBids and
\* jobBidders under the same names as the enhanced one, with smaller records,
\* and two boolean registries in place of the profiles.
enhancedOnlyVars ==
  <<pauser, paused, totalBidsSubmitted, totalJobsCompleted, totalActiveCarriers,
    jobWinners, carrierProfiles, shipperProfiles, callbackJobIds,
    callbackCarriers, callbackTypes, gatewayVars, historyVars>>
clientVars == <<rateVars, singletonVars, hookVars>>

EmptyBasicJob ==
  [origin |-> "", destination |-> "", cargoType |-> "", weight |-> 0,
   volume |-> 0, deadline |-> 0, biddingEndTime |-> 0, shipper |-> Zero,
   status |-> "Open", finalPrice |-> 0, isPrivate |-> FALSE]

EmptyBasicBid ==
  [encryptedPrice |-> NoHandle, hasSubmitted |-> FALSE, isRevealed |-> FALSE,
   revealedPrice |-> 0, timestamp |-> 0]

BasicSenders == {"owner", "s1", "c1", "c2"}

\* Constructor of the basic contract; the state it does not have is fixed.
InitBasic ==
  /\ beforePause = NotPaused
  /\ owner = Deployer
  /\ jobCounter = 0
  /\ freightJobs = [j \in JobKeys |-> EmptyBasicJob]
  /\ jobBids = [j \in JobKeys |-> [a \in AllAddr |-> EmptyBasicBid]]
  /\ jobBidders = [j \in JobKeys |-> <<>>]
  /\ verifiedCarriers = [a \in AllAddr |-> FALSE]
  /\ verifiedShippers = [a \in AllAddr |-> FALSE]
  /\ acl = << >>
  /\ cipher = << >>
  /\ now = 0
  /\ pauser = Deployer
  /\ paused = FALSE
  /\ totalBidsSubmitted = 0
  /\ totalJobsCompleted = 0
  /\ totalActiveCarriers = 0
  /\ jobWinners = [j \in JobKeys |-> Zero]
  /\ carrierProfiles = [a \in AllAddr |-> EmptyCarrierProfile]
  /\ shipperProfiles = [a \in AllAddr |-> EmptyShipperProfile]
  /\ callbackJobIds = [r \in RequestKeys |-> 0]
  /\ callbackCarriers = [r \in RequestKeys |-> Zero]
  /\ callbackTypes = [r \in RequestKeys |-> "RevealJobPrice"]
  /\ requestCounter = 0
  /\ requestDeadline = [r \in RequestKeys |-> 0]
  /\ ClientInit

Basic_verifyCarrier(sender, _carrier) ==
  /\ sender = owner
  /\ verifiedCarriers' = [verifiedCarriers EXCEPT ![_carrier] = TRUE]
  /\ UNCHANGED <<owner, jobCounter, freightJobs, jobBids, jobBidders,
                 verifiedShippers, fheVars, now, enhancedOnlyVars, clientVars>>

Basic_verifyShipper(sender, _shipper) ==
  /\ sender = owner
  /\ verifiedShippers' = [verifiedShippers EXCEPT ![_shipper] = TRUE]
  /\ UNCHANGED <<owner, jobCounter, freightJobs, jobBids, jobBidders,
                 verifiedCarriers, fheVars, now, enhancedOnlyVars, clientVars>>

Basic_postJob(sender, _origin, _destination, _cargoType) ==
  /\ verifiedShippers[sender]
  /\ jobCounter' = jobCounter + 1
  /\ freightJobs' = [freightJobs EXCEPT ![jobCounter + 1] =
       [origin |-> _origin, destination |-> _destination,
        cargoType |-> _cargoType, weight |-> 1000, volume |-> 100,
        deadline |-> now + 7 * DAY, biddingEndTime |-> now + 24 * HOUR,
        shipper |-> sender, status |-> "Open", finalPrice |-> 0,
        isPrivate |-> TRUE]]
  /\ UNCHANGED <<owner, jobBids, jobBidders, basicVars, fheVars, now,
                 enhancedOnlyVars, clientVars>>

Basic_submitBid(sender, _jobId, _price) ==
  /\ verifiedCarriers[sender]
  /\ _jobId > 0 /\ _jobId <= jobCounter
  /\ freightJobs[_jobId].status = "Open"
  /\ ~jobBids[_jobId][sender].hasSubmitted
  /\ LET encrypted == Handle("price", _jobId, sender) IN
     /\ jobBids' = [jobBids EXCEPT ![_jobId][sender] =
          [encryptedPrice |-> encrypted, hasSubmitted |-> TRUE,
           isRevealed |-> FALSE, revealedPrice |-> 0, timestamp |-> now]]
     /\ jobBidders' = [jobBidders EXCEPT ![_jobId] = Append(@, sender)]
     /\ cipher' = (encrypted :> FHE_asEuint32(_price)) @@ cipher
     /\ acl' = (encrypted :> {This, freightJobs[_jobId].shipper}) @@ acl
  /\ UNCHANGED <<owner, jobCounter, freightJobs, basicVars, now,
                 enhancedOnlyVars, clientVars>>

Basic_closeBidding(sender, _jobId) ==
  /\ freightJobs[_jobId].shipper = sender
  /\ freightJobs[_jobId].status = "Open"
  /\ freightJobs' = [freightJobs EXCEPT ![_jobId].status = "BiddingClosed"]
  /\ UNCHANGED <<owner, jobCounter, jobBids, jobBidders, basicVars, fheVars,
                 now, enhancedOnlyVars, clientVars>>

\* The carrier states the price itself; nothing ties it to the ciphertext.
Basic_revealBid(sender, _jobId, _price) ==
  /\ jobBids[_jobId][sender].hasSubmitted
  /\ ~jobBids[_jobId][sender].isRevealed
  /\ jobBids' = [jobBids EXCEPT ![_jobId][sender].isRevealed = TRUE,
                                ![_jobId][sender].revealedPrice = _price]
  /\ UNCHANGED <<owner, jobCounter, freightJobs, jobBidders, basicVars,
                 fheVars, now, enhancedOnlyVars, clientVars>>

\* awardJob checks the caller and the reveal, not the status of the job.
Basic_awardJob(sender, _jobId, _carrier) ==
  /\ freightJobs[_jobId].shipper = sender
  /\ jobBids[_jobId][_carrier].isRevealed
  /\ freightJobs' = [freightJobs EXCEPT
       ![_jobId].status = "Awarded",
       ![_jobId].finalPrice = jobBids[_jobId][_carrier].revealedPrice]
  /\ UNCHANGED <<owner, jobCounter, jobBids, jobBidders, basicVars, fheVars,
                 now, enhancedOnlyVars, clientVars>>

Basic_getJobInfo(_jobId) ==
  [origin |-> freightJobs[_jobId].origin,
   destination |-> freightJobs[_jobId].destination,
   status |-> freightJobs[_jobId].status]

NextBasic ==
  \/ \E sender \in BasicSenders, a \in ScenarioCarriers : Basic_verifyCarrier(sender, a)
  \/ \E sender \in BasicSenders, a \in ShipperInputs : Basic_verifyShipper(sender, a)
  \/ /\ jobCounter < MaxJobs
     /\ \E sender \in BasicSenders : Basic_postJob(sender, "NYC", "LA", "general")
  \/ \E sender \in BasicSenders, j \in JobKeys, p \in ScenarioPrices :
        Basic_submitBid(sender, j, p)
  \/ \E sender \in BasicSenders, j \in JobKeys : Basic_closeBidding(sender, j)
  \/ \E sender \in BasicSenders, j \in JobKeys, p \in ScenarioPrices :
        Basic_revealBid(sender, j, p)
  \/ \E sender \in BasicSenders, j \in JobKeys, c \in ScenarioCarriers :
        Basic_awardJob(sender, j, c)
  \/ /\ now < MaxTicks * HOUR
     /\ Tick

SpecBasic == InitBasic /\ [][NextBasic]_vars

\* ========================================================= checkRateLimit
RateLimits == {1, 2}
RateWindows == {2, 3}

\* timestamps.filter(ts => now - ts < windowMs)
FilterWindow(timestamps, windowMs) ==
  SelectSeq(timestamps, LAMBDA ts : dateNow - ts < windowMs)

\* One call of checkRateLimit(key, maxRequests, windowMs); its return value
\* is lastCall'.result.  A rejected call returns before the map is written.
checkRateLimit(key, maxRequests, windowMs) ==
  LET timestamps == requestTimestamps[key]
      validTimestamps == FilterWindow(timestamps, windowMs)
  IN
  /\ IF Len(validTimestamps) >= maxRequests
       THEN /\ lastCall' = [key |-> key, maxRequests |-> maxRequests,
                            windowMs |-> windowMs, result |-> FALSE]
            /\ UNCHANGED <<requestTimestamps, admitted>>
       ELSE /\ requestTimestamps' =
                 [requestTimestamps EXCEPT ![key] = Append(validTimestamps, dateNow)]
            /\ admitted' = [admitted EXCEPT ![key] = Append(@, dateNow)]
            /\ lastCall' = [key |-> key, maxRequests |-> maxRequests,
                            windowMs |-> windowMs, result |-> TRUE]
  /\ UNCHANGED <<dateNow, contractVars, historyVars, fheVars, gatewayVars, now, basicVars,
                 singletonVars, hookVars>>

\* Date.now() advances by a millisecond between two calls.
ClockTick ==
  /\ dateNow' = dateNow + 1
  /\ UNCHANGED <<requestTimestamps, admitted, lastCall, contractVars, historyVars, fheVars,
                 gatewayVars, now, basicVars, singletonVars, hookVars>>

NextRateLimit ==
  \/ \E key \in RateKeys, maxRequests \in RateLimits, windowMs \in RateWindows :
        checkRateLimit(key, maxRequests, windowMs)
  \/ /\ dateNow < MaxClock
     /\ ClockTick

SpecRateLimit == Init /\ [][NextRateLimit]_vars

\* ======================================================= getFhevmInstance
ChainIds == {FHEVM_SEPOLIA, MAINNET, LOCAL_CHAIN}
\* The chain ids that have an entry in NETWORK_PUBLIC_KEYS; LOCAL has none.
KnownChains == {FHEVM_SEPOLIA, SEPOLIA, MAINNET}
NETWORK_PUBLIC_KEYS ==
  [c \in KnownChains |->
     IF c = FHEVM_SEPOLIA THEN "SEPOLIA_FHEVM_PUBLIC_KEY"
     ELSE IF c = SEPOLIA THEN "SEPOLIA_PUBLIC_KEY"
     ELSE "MAINNET_PUBLIC_KEY"]
\* Public keys that a caller may put in the config; "" is none.
PublicKeyInputs == {"", "MYKEY"}
\* config.publicKey || NETWORK_PUBLIC_KEYS[chainId.toString()], "" if neither.
resolvedPublicKey(cfg) ==
  IF cfg.publicKey # "" THEN cfg.publicKey
  ELSE IF cfg.chainId \in DOMAIN NETWORK_PUBLIC_KEYS
         THEN NETWORK_PUBLIC_KEYS[cfg.chainId]
         ELSE ""
\* createFhevmInstance(cfg) throws when no public key is found; otherwise it
\* awaits fhevmjs, which resolves or rejects.
createFhevmInstance_CanResolve(cfg) == resolvedPublicKey(cfg) # ""
\* The object that the n-th createFhevmInstance call resolves to.
Instance(cfg, n) ==
  [chainId |-> cfg.chainId, publicKey |-> resolvedPublicKey(cfg), serial |-> n]

\* getFhevmInstance(chainId) up to its first await.  With a cached instance
\* it returns that; without one it calls createFhevmInstance({ chainId }) and
\* suspends until the promise settles.
getFhevmInstance(chainId) ==
  /\ IF fhevmInstance # Null
       THEN /\ calls' = Append(calls, [chainId |-> chainId, pc |-> "returned",
                                       result |-> fhevmInstance])
            /\ returnedSinceReset' = returnedSinceReset \cup {fhevmInstance}
            /\ UNCHANGED createdSinceReset
       ELSE /\ calls' = Append(calls, [chainId |-> chainId, pc |-> "awaiting",
                                       result |-> Null])
            /\ createdSinceReset' = createdSinceReset + 1
            /\ UNCHANGED returnedSinceReset
  /\ UNCHANGED <<fhevmInstance, contractVars, historyVars, fheVars, gatewayVars, now,
                 basicVars, rateVars, hookVars>>

\* The promise awaited by call i resolves: the call stores the new instance
\* in the module variable and returns it.
getFhevmInstance_Resolved(i) ==
  /\ calls[i].pc = "awaiting"
  /\ createFhevmInstance_CanResolve([chainId |-> calls[i].chainId, publicKey |-> ""])
  /\ LET instance == Instance([chainId |-> calls[i].chainId, publicKey |-> ""], i) IN
     /\ fhevmInstance' = instance
     /\ calls' = [calls EXCEPT ![i].pc = "returned", ![i].result = instance]
     /\ returnedSinceReset' = returnedSinceReset \cup {instance}
  /\ UNCHANGED <<createdSinceReset, contractVars, historyVars, fheVars, gatewayVars, now,
                 basicVars, rateVars, hookVars>>

\* The promise awaited by call i rejects: the call throws, nothing is stored.
getFhevmInstance_Rejected(i) ==
  /\ calls[i].pc = "awaiting"
  /\ calls' = [calls EXCEPT ![i].pc = "threw"]
  /\ UNCHANGED <<fhevmInstance, createdSinceReset, returnedSinceReset,
                 contractVars, historyVars, fheVars, gatewayVars, now, basicVars, rateVars,
                 hookVars>>

resetFhevmInstance ==
  /\ fhevmInstance' = Null
  /\ createdSinceReset' = 0
  /\ returnedSinceReset' = {}
  /\ UNCHANGED <<calls, contractVars, historyVars, fheVars, gatewayVars, now, basicVars,
                 rateVars, hookVars>>

NextSingleton ==
  \/ /\ Len(calls) < MaxCalls
     /\ \E chainId \in ChainIds : getFhevmInstance(chainId)
  \/ \E i \in 1..MaxCalls : i <= Len(calls) /\ getFhevmInstance_Resolved(i)
  \/ \E i \in 1..MaxCalls : i <= Len(calls) /\ getFhevmInstance_Rejected(i)
  \/ resetFhevmInstance

SpecSingleton == Init /\ [][NextSingleton]_vars

\* ================================================================ useFhevm
\* The passive effects React owes the component.  After a commit whose
\* config.chainId, the effect's only dependency, differs from the one the
\* last effect ran with (or after the first commit), the cleanup of the last
\* effect and the new effect are pending; after an unmount the cleanup of
\* the last effect is pending.  React runs them later, in a step of their
\* own, and always before it renders the component again.
PendingEffect ==
  /\ mounted = "mounted"
  /\ IF effects = <<>> THEN TRUE
     ELSE effects[Len(effects)].config.chainId # config.chainId
PendingCleanup ==
  /\ mounted = "unmounted"
  /\ IF effects = <<>> THEN FALSE
     ELSE ~effects[Len(effects)].cancelled

\* The cleanup function returned by the last effect: cancelled = true.
Cleanup(effs) ==
  IF effs = <<>> THEN effs
  ELSE [effs EXCEPT ![Len(effs)].cancelled = TRUE]

\* A render of the component with a new config, and its commit.  The hook
\* reads its three state cells and returns them; no effect runs yet.
Render(cfg) ==
  /\ mounted # "unmounted"
  /\ ~PendingEffect
  /\ cfg # config
  /\ config' = cfg
  /\ mounted' = "mounted"
  /\ UNCHANGED <<fhevm, isReady, error, effects, contractVars, historyVars,
                 fheVars, gatewayVars, now, basicVars, rateVars,
                 singletonVars>>

\* The component is removed from the tree; the cleanup of its effect is
\* owed.
Unmount ==
  /\ mounted = "mounted"
  /\ ~PendingEffect
  /\ mounted' = "unmounted"
  /\ UNCHANGED <<config, fhevm, isReady, error, effects, contractVars,
                 historyVars, fheVars, gatewayVars, now, basicVars, rateVars,
                 singletonVars>>

\* React flushes the pending passive effects: the cleanup of the last effect
\* and, when the component is still mounted, the effect itself, whose init()
\* calls createFhevmInstance(config) with the committed config and stops at
\* its await.
FlushEffects ==
  /\ PendingEffect \/ PendingCleanup
  /\ effects' = IF mounted = "mounted"
                  THEN Append(Cleanup(effects),
                              [config |-> config, cancelled |-> FALSE,
                               status |-> "pending"])
                  ELSE Cleanup(effects)
  /\ UNCHANGED <<config, mounted, fhevm, isReady, error, contractVars,
                 historyVars, fheVars, gatewayVars, now, basicVars, rateVars,
                 singletonVars>>

\* The promise of effect e resolves; init() continues behind its await.
init_Resolved(e) ==
  /\ effects[e].status = "pending"
  /\ createFhevmInstance_CanResolve(effects[e].config)
  /\ effects' = [effects EXCEPT ![e].status = "resolved"]
  /\ IF ~effects[e].cancelled
       THEN /\ fhevm' = Instance(effects[e].config, e)
            /\ isReady' = TRUE
       ELSE UNCHANGED <<fhevm, isReady>>
  /\ UNCHANGED <<config, mounted, error, contractVars, historyVars, fheVars,
                 gatewayVars, now, basicVars, rateVars, singletonVars>>

\* The promise of effect e rejects; init() continues in its catch block.
init_Rejected(e) ==
  /\ effects[e].status = "pending"
  /\ effects' = [effects EXCEPT ![e].status = "rejected"]
  /\ IF ~effects[e].cancelled
       THEN error' = "Error"
       ELSE UNCHANGED error
  /\ UNCHANGED <<config, mounted, fhevm, isReady, contractVars, historyVars,
                 fheVars, gatewayVars, now, basicVars, rateVars,
                 singletonVars>>

\* The configs a component may pass to the hook.
HookConfigs == [chainId : ChainIds, publicKey : PublicKeyInputs]

\* What the hook returns to the component when it renders.
useFhevm == [fhevm |-> fhevm, isReady |-> isReady, error |-> error]

NextHook ==
  \/ /\ Len(effects) < MaxEffects
     /\ \E cfg \in HookConfigs : Render(cfg)
  \/ FlushEffects
  \/ Unmount
  \/ \E e \in 1..MaxEffects : e <= Len(effects) /\ init_Resolved(e)
  \/ \E e \in 1..MaxEffects : e <= Len(effects) /\ init_Rejected(e)

SpecHook == Init /\ [][NextHook]_vars

\* ===================================================================== claims
Issued(requestId) == requestId < requestCounter
PendingFor(_jobId, _carrier) ==
  {r \in RequestKeys : Pending(r) /\ callbackJobIds[r] = _jobId
                       /\ callbackCarriers[r] = _carrier}
BidHandles(_jobId, _carrier) ==
  {jobBids[_jobId][_carrier].encryptedPrice,
   jobBids[_jobId][_carrier].encryptedDeliveryDays,
   jobBids[_jobId][_carrier].encryptedReliabilityScore,
   jobBids[_jobId][_carrier].isExpressService}

\* C1 (1): a callbackBidPriceReveal(r, p) step happens only for a request id
\* that requestBidPriceReveal issued and that is still pending; the step
\* writes p into the bid the request names, sets its reveal flag and deletes
\* the request record.
C1_CallbackStep(r) ==
  \A s \in Users, p \in Plain :
    callbackBidPriceReveal(s, r, p) =>
      /\ Pending(r) /\ Issued(r)
      /\ jobBids'[callbackJobIds[r]][callbackCarriers[r]].isRevealed
      /\ jobBids'[callbackJobIds[r]][callbackCarriers[r]].revealedPrice = p
      /\ ~Pending(r)'
      /\ callbackJobIds'[r] = 0
      /\ callbackCarriers'[r] = Zero

\* C1 (2): a request id that was issued and is no longer pending never becomes
\* pending again, and no step is a callbackBidPriceReveal for it.
C1_ConsumedForever(r) ==
  (Issued(r) /\ ~Pending(r)) =>
      /\ ~Pending(r)'
      /\ \A s \in Users, p \in Plain : ~callbackBidPriceReveal(s, r, p)

\* C1: callbackBidPriceReveal(r, p) succeeds only for a pending request id r,
\* the successful call writes p to the bid and deletes the request record, and
\* from then on every call with the same r fails, whatever happens in between.
C1_AtMostOnceReveal ==
  [][\A r \in RequestKeys :
       /\ Pending(r) => Issued(r)
       /\ C1_CallbackStep(r)
       /\ C1_ConsumedForever(r)]_vars

\* A request has been consumed and its bid carries the delivered price.
C1_Witness ==
  \E r \in RequestKeys, j \in JobIds, c \in CarrierInputs :
    /\ Issued(r) /\ ~Pending(r)
    /\ jobBids[j][c].isRevealed
    /\ jobBids[j][c].revealedPrice = MaxPlain

\* C2: a job becomes Cancelled only from Open or BiddingClosed, and becomes
\* Awarded only from BiddingClosed with a winner whose bid on that job exists
\* and has isRevealed = true.
C2_StateMachineClosure ==
  [][\A j \in JobIds :
       /\ (freightJobs'[j].status = "Cancelled" /\ freightJobs[j].status # "Cancelled")
            => freightJobs[j].status \in {"Open", "BiddingClosed"}
       /\ (freightJobs'[j].status = "Awarded" /\ freightJobs[j].status # "Awarded")
            => /\ freightJobs[j].status = "BiddingClosed"
               /\ jobBids[j][jobWinners'[j]].hasSubmitted
               /\ jobBids[j][jobWinners'[j]].isRevealed
       /\ \A s \in Users, c \in AllAddr :
            /\ cancelJob(s, j) => freightJobs[j].status \in {"Open", "BiddingClosed"}
            /\ awardJob(s, j, c) => /\ freightJobs[j].status = "BiddingClosed"
                                    /\ jobBids[j][c].hasSubmitted
                                    /\ jobBids[j][c].isRevealed]_vars

\* A job has been awarded to a carrier.
C2_Witness ==
  \E j \in JobIds : freightJobs[j].status = "Awarded" /\ jobWinners[j] # Zero

\* C3 (as claimed): while paused stays true, no job, bid, bidder list, winner,
\* ACL or pending-request entry changes.
C3_PausedFreezesState ==
  [][(paused /\ paused') =>
       UNCHANGED <<freightJobs, jobBids, jobBidders, jobWinners, acl,
                   callbackJobIds, callbackCarriers, callbackTypes>>]_vars

\* C4 (as claimed): what getBidInfo returns to every caller never is the
\* plaintext of a bid's encrypted price while some account is outside the ACL
\* of that price handle.
C4_PlaintextOnlyForAcl ==
  \A j \in JobIds, c \in AllAddr, a \in Users :
    (jobBids[j][c].hasSubmitted /\ a \notin acl[jobBids[j][c].encryptedPrice])
      => ~(/\ getBidInfo(j, c).isRevealed
           /\ getBidInfo(j, c).revealedPrice = cipher[jobBids[j][c].encryptedPrice])

\* Number of entries of the bidder list of a job that name the carrier.
BidderCount(_jobId, _carrier) ==
  Cardinality({i \in 1..Len(jobBidders[_jobId]) : jobBidders[_jobId][i] = _carrier})

\* C5: for every job and carrier at most one bid exists: the carrier is in the
\* bidder list exactly once when its bid exists and not at all otherwise, its
\* totalBids counter counts its bids, and once the bid exists every further
\* submitBid by that carrier on that job fails.
C5_OneBidPerCarrier ==
  \A j \in JobIds, c \in Users :
    /\ BidderCount(j, c) = (IF jobBids[j][c].hasSubmitted THEN 1 ELSE 0)
    /\ carrierProfiles[c].totalBids =
         Cardinality({k \in JobIds : jobBids[k][c].hasSubmitted})
    /\ jobBids[j][c].hasSubmitted =>
         \A in \in BidInputs : ~ENABLED submitBid(c, j, in)

\* A bid exists and only the duplicate check stands between its carrier and a
\* second submission.
C5_Witness ==
  \E j \in JobIds, c \in Users :
    /\ jobBids[j][c].hasSubmitted
    /\ validJobId(j) /\ onlyVerifiedCarrier(c) /\ whenNotPaused
    /\ jobInStatus(j, "Open")
    /\ now < freightJobs[j].biddingEndTime
    /\ c # freightJobs[j].shipper

\* C6 (as claimed): at most one pending request exists per bid.
C6_OnePendingPerBid ==
  \A j \in JobIds, c \in AllAddr : Cardinality(PendingFor(j, c)) <= 1

\* C7 (as claimed): a request whose deadline has passed is never applied: no
\* step consumes it.
C7_ExpiredNotApplied ==
  [][\A r \in RequestKeys :
       (Pending(r) /\ now > requestDeadline[r]) =>
          /\ Pending(r)'
          /\ jobBids'[callbackJobIds[r]][callbackCarriers[r]] =
               jobBids[callbackJobIds[r]][callbackCarriers[r]]]_vars

\* C8: for a pending request, a callbackBidPriceReveal by any account other
\* than the gateway fails (the request record and the bid stay as they are),
\* and the gateway can still apply the request.
C8_OnlyGatewayApplies ==
  \A r \in RequestKeys :
    Pending(r) =>
      /\ \A s \in Users \ {GatewayAddr}, p \in Plain :
           ~ENABLED callbackBidPriceReveal(s, r, p)
      /\ \A p \in Plain : ENABLED callbackBidPriceReveal(GatewayAddr, r, p)
      /\ jobBids[callbackJobIds[r]][callbackCarriers[r]].hasSubmitted

\* A request is pending.
C8_Witness == \E r \in RequestKeys : Pending(r) /\ Issued(r)

\* C9 (as claimed): the ACL of each encrypted field of a bid holds only the
\* contract, the submitting carrier and the job's shipper.
C9_AclOnlyCarrierAndShipper ==
  \A j \in JobIds, c \in AllAddr :
    jobBids[j][c].hasSubmitted =>
      \A h \in BidHandles(j, c) : acl[h] \subseteq {This, c, freightJobs[j].shipper}

\* Accounts added to the ACL of handle h by the current step.
Added(h) == acl'[h] \ (IF h \in DOMAIN acl THEN acl[h] ELSE {})

\* C9 (amended): the ACL of each encrypted field of a bid holds no account
\* other than the contract, the submitting carrier, the job's shipper and the
\* accounts that the job's shipper has added through allowBidAccess: an
\* account enters such an ACL only when the bid is submitted, and then it is
\* one of the first three, or by an allowBidAccess call of the job's shipper
\* that names it; allowBidAccess by any other account fails.
C9_AclGrantedByShipperOnly ==
  [][\A j \in JobIds, c \in AllAddr :
       jobBids'[j][c].hasSubmitted =>
         /\ \A h \in BidHandles(j, c)' :
              Added(h) # {} =>
                \/ /\ ~jobBids[j][c].hasSubmitted
                   /\ Added(h) \subseteq {This, c, freightJobs[j].shipper}
                \/ /\ jobBids[j][c].hasSubmitted
                   /\ \E a \in AllAddr :
                        /\ Added(h) = {a}
                        /\ allowBidAccess(freightJobs[j].shipper, j, c, a)
         /\ \A s \in Users \ {freightJobs[j].shipper}, a \in AllAddr :
              ~allowBidAccess(s, j, c, a)]_vars

\* The shipper has granted a third account access to a bid's price.
C9_Witness ==
  \E j \in JobIds, c \in AllAddr :
    /\ jobBids[j][c].hasSubmitted
    /\ acl[jobBids[j][c].encryptedPrice] \ {This, c, freightJobs[j].shipper} # {}

\* C10 (as claimed): every handle of a Job record has the job's shipper in its
\* ACL and every handle of a Bid record has the bid's carrier in its ACL.
C10_OwnerInAcl ==
  /\ \A j \in JobIds :
       validJobId(j) =>
         \A h \in {freightJobs[j].encryptedWeight, freightJobs[j].encryptedVolume,
                   freightJobs[j].isUrgent, freightJobs[j].encryptedFinalPrice} :
           freightJobs[j].shipper \in acl[h]
  /\ \A j \in JobIds, c \in AllAddr :
       jobBids[j][c].hasSubmitted =>
         \A h \in BidHandles(j, c) : c \in acl[h]

\* C11 (as claimed): no account is both a verified shipper and a verified
\* carrier, and verifying an account in one role fails when it already holds
\* the other role.
C11_RolesExclusive ==
  \A a \in Users :
    /\ ~(shipperProfiles[a].isVerified /\ carrierProfiles[a].isVerified)
    /\ shipperProfiles[a].isVerified => ~ENABLED verifyCarrier(owner, a)
    /\ carrierProfiles[a].isVerified => ~ENABLED verifyShipper(owner, a)

\* Operations a shipper account s can invoke on job j.
ShipperCanAct(s, j) ==
  \/ \E o \in StringInputs, d \in StringInputs, in \in JobInputs,
        dur \in DurationInputs : ENABLED postJob(s, o, d, "general", in, dur)
  \/ ENABLED closeBidding(s, j)
  \/ \E c \in CarrierInputs : ENABLED requestBidPriceReveal(s, j, c)
  \/ \E c \in CarrierInputs : ENABLED awardJob(s, j, c)
  \/ ENABLED completeJob(s, j)
  \/ ENABLED cancelJob(s, j)
  \/ \E c \in CarrierInputs, a \in GranteeInputs : ENABLED allowBidAccess(s, j, c, a)

\* C12 (as claimed): only the owner deactivates, and a deactivated shipper
\* (resp. carrier) can invoke no state-changing operation any more.
C12_DeactivatedCannotAct ==
  /\ \A s \in Users \ {owner}, a \in AllAddr :
       ~ENABLED deactivateShipper(s, a) /\ ~ENABLED deactivateCarrier(s, a)
  /\ \A s \in Users :
       (shipperProfiles[s].isVerified /\ ~shipperProfiles[s].isActive) =>
          \A j \in JobIds : ~ShipperCanAct(s, j)
  /\ \A c \in Users :
       (carrierProfiles[c].isVerified /\ ~carrierProfiles[c].isActive) =>
          \A j \in JobIds, in \in BidInputs : ~ENABLED submitBid(c, j, in)

\* C13 (as claimed): a bid whose price has plaintext 0 is never recorded:
\* submitBid with such a price fails.
C13_ZeroPriceRejected ==
  /\ \A j \in JobIds, c \in AllAddr :
       jobBids[j][c].hasSubmitted => cipher[jobBids[j][c].encryptedPrice] # 0
  /\ \A j \in JobIds, c \in Users, in \in BidInputs :
       in.price = 0 => ~ENABLED submitBid(c, j, in)

\* Jobs of shipper s that are neither Completed nor Cancelled.
NonTerminalJobs(s) ==
  {j \in DOMAIN freightJobs :
     /\ validJobId(j)
     /\ freightJobs[j].shipper = s
     /\ freightJobs[j].status \notin {"Completed", "Cancelled"}}

\* C14 (as claimed): a job never has more than MaxBidsPerJob bids, a shipper
\* never has more than MaxJobsPerShipper non-terminal jobs, and postJob fails
\* for a shipper that is at the cap.
C14_ResourceCaps ==
  /\ \A j \in DOMAIN jobBidders : Len(jobBidders[j]) <= MaxBidsPerJob
  /\ \A s \in Users :
       /\ Cardinality(NonTerminalJobs(s)) <= MaxJobsPerShipper
       /\ Cardinality(NonTerminalJobs(s)) = MaxJobsPerShipper =>
            \A in \in JobInputs :
              ~ENABLED postJob(s, "NYC", "NYC", "general", in, MinBiddingDuration)

\* Everything submitBid(c, j, .) needs except the deadline comparison.
BidAllowedButForDeadline(c, j) ==
  /\ validJobId(j) /\ onlyVerifiedCarrier(c) /\ whenNotPaused
  /\ jobInStatus(j, "Open")
  /\ ~jobBids[j][c].hasSubmitted
  /\ c # freightJobs[j].shipper

\* C15: submitBid on job j succeeds only while now < biddingEndTime(j): at
\* now = biddingEndTime(j) or later it fails, also when the job is still Open
\* and its deadline is still ahead; before biddingEndTime(j) the deadline does
\* not stand in the way.
C15_StrictBiddingDeadline ==
  \A j \in JobIds, c \in Users, in \in BidInputs :
    /\ now >= freightJobs[j].biddingEndTime => ~ENABLED submitBid(c, j, in)
    /\ (BidAllowedButForDeadline(c, j) /\ now < freightJobs[j].biddingEndTime)
         => ENABLED submitBid(c, j, in)

\* The clock stands exactly at the bidding deadline of an Open job whose own
\* deadline has not passed, and only the deadline blocks the carrier's bid.
C15_Witness ==
  \E j \in JobIds, c \in Users :
    /\ BidAllowedButForDeadline(c, j)
    /\ now = freightJobs[j].biddingEndTime
    /\ now < freightJobs[j].deadline

\* Everything submitBid(c, j, .) needs except the job status.
BidAllowedButForStatus(c, j) ==
  /\ validJobId(j) /\ onlyVerifiedCarrier(c) /\ whenNotPaused
  /\ submitBidRequires(c, j)

\* C16: once a job is not Open any more, no step is a submitBid on it, its
\* bidder list stays as it is and so do the encrypted fields and the existence
\* of each of its bids.
C16_BidsOnlyWhileOpen ==
  [][\A j \in JobIds :
       (validJobId(j) /\ freightJobs[j].status # "Open") =>
          /\ jobBidders'[j] = jobBidders[j]
          /\ \A c \in AllAddr :
               /\ jobBids'[j][c].hasSubmitted = jobBids[j][c].hasSubmitted
               /\ BidHandles(j, c)' = BidHandles(j, c)
               /\ \A in \in BidInputs : ~submitBid(c, j, in)]_vars

\* A job has left Open while a carrier without a bid on it could otherwise
\* still submit one.
C16_Witness ==
  \E j \in JobIds, c \in Users :
    /\ freightJobs[j].status \in {"BiddingClosed", "Cancelled"}
    /\ BidAllowedButForStatus(c, j)

\* The status changes the lifecycle allows.
AllowedTransitions ==
  {<<"Open", "BiddingClosed">>, <<"BiddingClosed", "Awarded">>,
   <<"Awarded", "Completed">>, <<"Open", "Cancelled">>,
   <<"BiddingClosed", "Cancelled">>}

\* C17: every change of a job's status is one of Open -> BiddingClosed ->
\* Awarded -> Completed, Open -> Cancelled, BiddingClosed -> Cancelled; a
\* Completed or Cancelled job keeps its status; a job that exists keeps
\* existing with the shipper, route and creation time it was posted with.
C17_LifecycleOrder ==
  [][\A j \in JobIds :
       /\ freightJobs'[j].status # freightJobs[j].status =>
            <<freightJobs[j].status, freightJobs'[j].status>> \in AllowedTransitions
       /\ (validJobId(j) /\ freightJobs[j].status \in {"Completed", "Cancelled"}) =>
            freightJobs'[j].status = freightJobs[j].status
       /\ validJobId(j) =>
            /\ validJobId(j)'
            /\ freightJobs'[j].shipper = freightJobs[j].shipper
            /\ freightJobs'[j].origin = freightJobs[j].origin
            /\ freightJobs'[j].destination = freightJobs[j].destination
            /\ freightJobs'[j].createdAt = freightJobs[j].createdAt]_vars

\* A job has run through the whole lifecycle and its record is still there.
C17_Witness ==
  \E j \in JobIds :
    /\ freightJobs[j].status = "Completed"
    /\ freightJobs[j].shipper # Zero
    /\ totalJobsCompleted > 0

\* Requests for bids of job j that the gateway has not answered.
PendingOfJob(j) == {r \in RequestKeys : Pending(r) /\ callbackJobIds[r] = j}

\* C18: while the breaker is not engaged the shipper of a non-terminal job can
\* always end it, with cancelJob from Open or BiddingClosed and with
\* completeJob from Awarded, whatever reveal requests are pending or expired.
C18_JobNeverBlocked ==
  \A j \in JobIds :
    (validJobId(j) /\ whenNotPaused) =>
      /\ freightJobs[j].status \in {"Open", "BiddingClosed"} =>
           ENABLED cancelJob(freightJobs[j].shipper, j)
      /\ freightJobs[j].status = "Awarded" =>
           ENABLED completeJob(freightJobs[j].shipper, j)

\* A job with closed bidding has an unanswered reveal request whose gateway
\* deadline has passed and whose bid is still not revealed.
C18_Witness ==
  \E j \in JobIds, r \in RequestKeys :
    /\ whenNotPaused
    /\ freightJobs[j].status = "BiddingClosed"
    /\ r \in PendingOfJob(j)
    /\ now > requestDeadline[r]
    /\ ~jobBids[j][callbackCarriers[r]].isRevealed

\* Plaintext behind the encrypted price of bid (j, c).
PriceOf(j, c) == cipher[jobBids[j][c].encryptedPrice]

\* C19: with bidding closed on a job and the gateway having answered the
\* reveal requests, awardJob succeeds for every carrier whose bid is revealed;
\* a revealed bid shows the plaintext the carrier submitted, and an awarded
\* job's revealed final price is the plaintext of the winner's bid.
C19_EndToEndAward ==
  \A j \in ScenarioJobIds :
    /\ \A c \in ScenarioCarriers :
         /\ jobBids[j][c].isRevealed => jobBids[j][c].revealedPrice = PriceOf(j, c)
         /\ (freightJobs[j].status = "BiddingClosed" /\ jobBids[j][c].isRevealed)
              => ENABLED awardJob(freightJobs[j].shipper, j, c)
    /\ freightJobs[j].status = "Awarded" =>
         /\ freightJobs[j].isPriceRevealed
         /\ freightJobs[j].revealedFinalPrice = PriceOf(j, jobWinners[j])

\* Two carriers bid 5000 and 4800 on a job, both bids were revealed and the
\* job went to the carrier who bid 4800, at a final price of 4800.
C19_Witness ==
  \E j \in ScenarioJobIds, w \in ScenarioCarriers, l \in ScenarioCarriers :
    /\ freightJobs[j].biddingEndTime = freightJobs[j].createdAt + 1 * HOUR
    /\ freightJobs[j].status = "Awarded"
    /\ jobWinners[j] = w
    /\ jobBids[j][w].isRevealed /\ PriceOf(j, w) = 4800
    /\ jobBids[j][l].isRevealed /\ PriceOf(j, l) = 5000
    /\ freightJobs[j].revealedFinalPrice = 4800

\* Effect of awardJob(j, c) on job j, bid (j, c) and carrier c.
C20_AwardEffect(j, c) ==
  /\ freightJobs'[j] =
       [freightJobs[j] EXCEPT !.status = "Awarded",
                              !.encryptedFinalPrice = jobBids[j][c].encryptedPrice,
                              !.revealedFinalPrice = jobBids[j][c].revealedPrice,
                              !.isPriceRevealed = TRUE]
  /\ jobWinners'[j] = c
  /\ jobBids'[j][c] = [jobBids[j][c] EXCEPT !.evaluationStatus = "Approved"]
  /\ carrierProfiles'[c] =
       [carrierProfiles[c] EXCEPT !.wonBids = carrierProfiles[c].wonBids + 1]

\* What awardJob(j, c) leaves alone: the other bids of j, the bidder lists,
\* the other jobs with their bids and winners, the other carriers.
C20_AwardFrame(j, c) ==
  /\ \A o \in AllAddr \ {c} :
       /\ jobBids'[j][o] = jobBids[j][o]
       /\ carrierProfiles'[o] = carrierProfiles[o]
  /\ jobBidders' = jobBidders
  /\ \A k \in ScenarioJobKeys \ {j} :
       /\ freightJobs'[k] = freightJobs[k]
       /\ jobBids'[k] = jobBids[k]
       /\ jobWinners'[k] = jobWinners[k]

\* C20: a successful awardJob(j, c) sets job j to Awarded with the encrypted
\* and revealed price of bid (j, c) as final price, records c as winner, marks
\* that bid Approved, adds one to c's wonBids and changes no other bid, job
\* or carrier.
C20_AwardJobEffect ==
  [][\A s \in ScenarioSenders, j \in ScenarioJobIds, c \in ScenarioCarriers :
       awardJob(s, j, c) => (C20_AwardEffect(j, c) /\ C20_AwardFrame(j, c))]_vars

\* A job with two bids has been awarded: the winner's bid is Approved and its
\* wonBids is 1, the other bid is not Approved, and a second job is untouched.
C20_Witness ==
  \E j \in ScenarioJobIds, k \in ScenarioJobIds, w \in ScenarioCarriers,
     l \in ScenarioCarriers :
    /\ j # k /\ w # l
    /\ freightJobs[j].status = "Awarded" /\ jobWinners[j] = w
    /\ jobBids[j][w].evaluationStatus = "Approved"
    /\ carrierProfiles[w].wonBids = 1
    /\ jobBids[j][l].hasSubmitted /\ jobBids[j][l].evaluationStatus # "Approved"
    /\ validJobId(k) /\ freightJobs[k].status = "Open"
    /\ jobBids[k][w].hasSubmitted

\* C21: closeBidding(j) can succeed only for j's shipper on an Open job with
\* at least one bid, and a job whose bidding is closed, or that is awarded or
\* completed, has at least one bid.
C21_CloseNeedsBid ==
  \A j \in JobIds :
    /\ \A s \in Users :
         ENABLED closeBidding(s, j) =>
           /\ s = freightJobs[j].shipper
           /\ freightJobs[j].status = "Open"
           /\ Len(jobBidders[j]) > 0
    /\ freightJobs[j].status \in {"BiddingClosed", "Awarded", "Completed"} =>
         /\ Len(jobBidders[j]) > 0
         /\ \E c \in AllAddr : jobBids[j][c].hasSubmitted

\* An Open job without bids whose shipper is stopped by the bid count alone.
C21_Witness ==
  \E j \in JobIds :
    /\ validJobId(j) /\ whenNotPaused
    /\ freightJobs[j].status = "Open"
    /\ Len(jobBidders[j]) = 0

\* Jobs whose status is Completed.
CompletedJobs == {j \in DOMAIN freightJobs : freightJobs[j].status = "Completed"}

\* C22: a completeJob(j) step is taken by j's shipper on an Awarded job and
\* adds exactly one to the winner's completedJobs, to the shipper's
\* totalJobsCompleted and to the global totalJobsCompleted; after every step
\* the global counter is the number of Completed jobs.
C22_CompletionCounters ==
  [][/\ \A s \in ScenarioSenders, j \in ScenarioJobIds :
          completeJob(s, j) =>
            /\ s = freightJobs[j].shipper
            /\ freightJobs[j].status = "Awarded"
            /\ freightJobs'[j].status = "Completed"
            /\ carrierProfiles'[jobWinners[j]].completedJobs =
                 carrierProfiles[jobWinners[j]].completedJobs + 1
            /\ shipperProfiles'[s].totalJobsCompleted =
                 shipperProfiles[s].totalJobsCompleted + 1
            /\ totalJobsCompleted' = totalJobsCompleted + 1
     /\ totalJobsCompleted = Cardinality(CompletedJobs)
     /\ totalJobsCompleted' = Cardinality(CompletedJobs')]_vars

\* Two jobs of one shipper have been completed, won by different carriers.
C22_Witness ==
  \E j \in ScenarioJobIds, k \in ScenarioJobIds :
    /\ j # k
    /\ freightJobs[j].status = "Completed" /\ freightJobs[k].status = "Completed"
    /\ jobWinners[j] # jobWinners[k]
    /\ totalJobsCompleted = 2
    /\ shipperProfiles[freightJobs[j].shipper].totalJobsCompleted = 2
    /\ carrierProfiles[jobWinners[j]].completedJobs = 1

\* C23: closeBidding, requestBidPriceReveal, awardJob, completeJob, cancelJob
\* and allowBidAccess on job j fail for every caller that is not the account
\* that posted j.
C23_OnlyJobShipperActs ==
  \A j \in JobIds, s \in Users :
    s # freightJobs[j].shipper =>
      /\ ~ENABLED closeBidding(s, j)
      /\ ~ENABLED completeJob(s, j)
      /\ ~ENABLED cancelJob(s, j)
      /\ \A c \in CarrierInputs :
           /\ ~ENABLED requestBidPriceReveal(s, j, c)
           /\ ~ENABLED awardJob(s, j, c)
           /\ \A a \in GranteeInputs : ~ENABLED allowBidAccess(s, j, c, a)

\* A job's own shipper can award it, so that only the ownership check stops
\* the owner and the bidding carrier.
C23_Witness ==
  \E j \in JobIds, c \in CarrierInputs :
    /\ validJobId(j) /\ whenNotPaused
    /\ awardJobRequires(j, c)
    /\ owner # freightJobs[j].shipper
    /\ c # freightJobs[j].shipper

\* Plaintexts of the encrypted fields of bid (j, c).
DaysOf(j, c) == cipher[jobBids[j][c].encryptedDeliveryDays]
ReliabilityOf(j, c) == cipher[jobBids[j][c].encryptedReliabilityScore]
ExpressOf(j, c) == cipher[jobBids[j][c].isExpressService]

\* C24: for two bids a and b of a job its shipper can call
\* compareBidsEncrypted(a, b); the result decrypts to true when a's price is
\* lower, to false when a's price is higher, and on equal prices to
\* (a's delivery days are fewer) or (a's reliability is higher).
C24_ComparatorCorrect ==
  \A j \in JobIds, a \in ScenarioCarriers, b \in ScenarioCarriers :
    (jobBids[j][a].hasSubmitted /\ jobBids[j][b].hasSubmitted) =>
      /\ compareBidsEncryptedRequires(freightJobs[j].shipper, j, a, b)
      /\ PriceOf(j, a) < PriceOf(j, b) => compareBidsEncrypted(j, a, b) = TRUE
      /\ PriceOf(j, a) > PriceOf(j, b) => compareBidsEncrypted(j, a, b) = FALSE
      /\ PriceOf(j, a) = PriceOf(j, b) =>
           compareBidsEncrypted(j, a, b) =
             (DaysOf(j, a) < DaysOf(j, b) \/ ReliabilityOf(j, a) > ReliabilityOf(j, b))

\* Two bids tie on price and only one tie-breaker favours the first; two
\* other bids differ in price with delivery and reliability pointing the
\* other way.
C24_Witness ==
  \E j \in JobIds, a \in ScenarioCarriers, b \in ScenarioCarriers :
    /\ a # b
    /\ jobBids[j][a].hasSubmitted /\ jobBids[j][b].hasSubmitted
    /\ \/ /\ PriceOf(j, a) = PriceOf(j, b)
          /\ DaysOf(j, a) > DaysOf(j, b)
          /\ ReliabilityOf(j, a) > ReliabilityOf(j, b)
          /\ compareBidsEncrypted(j, a, b)
       \/ /\ PriceOf(j, a) = 90 /\ PriceOf(j, b) = 100
          /\ DaysOf(j, a) > DaysOf(j, b)
          /\ ReliabilityOf(j, a) < ReliabilityOf(j, b)
          /\ compareBidsEncrypted(j, a, b)

\* Whole days left until the job's deadline, never negative.
RemainingDays(j) ==
  IF freightJobs[j].deadline > now
    THEN (freightJobs[j].deadline - now) \div DAY
    ELSE 0

\* C25 (as claimed): for every existing bid, at every clock value,
\* checkBidMeetsRequirements returns (deliveryDays <= remaining whole days)
\* and (reliability >= 50) and (not urgent or express).
C25_MeetsRequirements ==
  \A j \in JobIds, c \in ScenarioCarriers :
    jobBids[j][c].hasSubmitted =>
      /\ checkBidMeetsRequirementsRequires(j, c)
      /\ checkBidMeetsRequirements(j, c) =
           (/\ DaysOf(j, c) <= RemainingDays(j)
            /\ ReliabilityOf(j, c) >= MinReliability
            /\ (~cipher[freightJobs[j].isUrgent] \/ ExpressOf(j, c)))

\* C27 (as claimed): a pause followed by an unpause only delays: while the
\* contract is paused no step is a postJob, submitBid or awardJob, and at
\* every unpause the jobs, bids, profiles, ACLs and pending requests are
\* exactly what they were when pause() ran.  Whether an operation then
\* succeeds is decided by that state and the clock alone.
C27_PauseRoundTrip ==
  [][/\ \A s \in Users : unpause(s) => PauseScope' = beforePause
     /\ paused =>
          /\ jobCounter' = jobCounter
          /\ totalBidsSubmitted' = totalBidsSubmitted
          /\ \A s \in Users, j \in JobIds :
               /\ \A in \in BidInputs : ~submitBid(s, j, in)
               /\ \A c \in CarrierInputs : ~awardJob(s, j, c)
          /\ \A s \in Users, o \in StringInputs, d \in StringInputs,
                in \in JobInputs, dur \in DurationInputs :
               ~postJob(s, o, d, "general", in, dur)]_vars

\* C28: pause can succeed only for the pauser or the owner while not paused,
\* unpause only for them while paused, and both can then succeed; setPauser
\* can succeed only for the owner; an account that is neither the current
\* pauser nor the owner, a replaced pauser included, can do neither.
C28_BreakerCallers ==
  /\ \A s \in Users :
       /\ ENABLED pause(s) <=> (s \in {pauser, owner} /\ ~paused)
       /\ ENABLED unpause(s) <=> (s \in {pauser, owner} /\ paused)
       /\ \A n \in AllAddr : ENABLED setPauser(s, n) => s = owner
  /\ \A q \in RoleInputs :
       (q # pauser /\ q # owner) => (~ENABLED pause(q) /\ ~ENABLED unpause(q))

\* The pauser role has been handed to one account while another account,
\* which is not the owner, is a verified shipper without the role.
C28_Witness ==
  \E n \in RoleInputs, q \in RoleInputs :
    /\ n # q
    /\ pauser = n
    /\ shipperProfiles[q].isVerified
    /\ paused

\* Keys of the job table that hold a posted job.
ExistingJobs == {j \in DOMAIN freightJobs : freightJobs[j].shipper # Zero}

\* Every job-scoped operation with id j is disabled for every caller.
NoOperationOn(j) ==
  \A s \in ScenarioSenders :
    /\ ~ENABLED closeBidding(s, j)
    /\ ~ENABLED completeJob(s, j)
    /\ ~ENABLED cancelJob(s, j)
    /\ \A in \in ScenarioBidInputs : ~ENABLED submitBid(s, j, in)
    /\ \A c \in ScenarioCarriers :
         /\ ~ENABLED requestBidPriceReveal(s, j, c)
         /\ ~ENABLED awardJob(s, j, c)
         /\ \A a \in GranteeInputs : ~ENABLED allowBidAccess(s, j, c, a)
         /\ ~checkBidMeetsRequirementsRequires(j, c)
         /\ \A d \in ScenarioCarriers : ~compareBidsEncryptedRequires(s, j, c, d)

\* C29: the existing jobs are exactly the ids 1..jobCounter and every
\* operation naming another id fails.
C29_IdsAreOneToCounter ==
  /\ ExistingJobs = 1..jobCounter
  /\ \A j \in ScenarioJobKeys : j \notin 1..jobCounter => NoOperationOn(j)

\* C29: a successful postJob creates its job under the id jobCounter + 1,
\* which held no job before, makes that the new jobCounter and leaves every
\* job posted earlier as it was; no other step changes jobCounter; before and
\* after every step the existing jobs are exactly 1..jobCounter and every
\* operation naming another id fails.
C29_MonotoneJobIds ==
  [][/\ \A s \in ScenarioSenders, in \in JobInputs :
          postJob(s, "NYC", "LA", "general", in, MinBiddingDuration) =>
            /\ jobCounter' = jobCounter + 1
            /\ jobCounter' \notin ExistingJobs
            /\ freightJobs'[jobCounter'].shipper = s
            /\ \A j \in ExistingJobs : freightJobs'[j] = freightJobs[j]
     /\ jobCounter' \in {jobCounter, jobCounter + 1}
     /\ ExistingJobs \subseteq ExistingJobs'
     /\ C29_IdsAreOneToCounter
     /\ C29_IdsAreOneToCounter']_vars

\* Two jobs exist under the ids 1 and 2, posted at the same clock value, and
\* the first already has a bid.
C29_Witness ==
  /\ jobCounter = 2
  /\ ExistingJobs = {1, 2}
  /\ freightJobs[1].createdAt = freightJobs[2].createdAt
  /\ Len(jobBidders[1]) > 0

\* C30 (as claimed): the winner of every Awarded or Completed job has a bid on
\* it that is revealed and Approved, and the job's revealed final price is
\* that bid's revealed price.
C30_WinnerBidApproved ==
  \A j \in ScenarioJobIds :
    freightJobs[j].status \in {"Awarded", "Completed"} =>
      /\ jobBids[j][jobWinners[j]].hasSubmitted
      /\ jobBids[j][jobWinners[j]].isRevealed
      /\ jobBids[j][jobWinners[j]].evaluationStatus = "Approved"
      /\ freightJobs[j].revealedFinalPrice = jobBids[j][jobWinners[j]].revealedPrice

\* A bid can still be placed on job j: some verified carrier's submitBid succeeds.
BiddingOpen(j) ==
  \E s \in Users, in \in BidInputs : ENABLED submitBid(s, j, in)
\* The status and clock conditions of submitBid: job j is Open and the clock
\* is before its bidding deadline.
BiddingWindow(j) ==
  /\ freightJobs[j].status = "Open"
  /\ now < freightJobs[j].biddingEndTime
\* The status and clock condition of requestBidPriceReveal: job j is
\* BiddingClosed or the clock has reached its bidding deadline.
RevealWindowReached(j) ==
  \/ freightJobs[j].status = "BiddingClosed"
  \/ now >= freightJobs[j].biddingEndTime
\* No price of job j is revealed or awaiting decryption while j takes bids.
Sealed(j) ==
  (\/ \E c \in Users : jobBids[j][c].isRevealed
   \/ \E c \in Users : PendingFor(j, c) # {})
    => (~BiddingWindow(j) /\ ~BiddingOpen(j))

\* C31: no bid of a job is revealed (or has a decryption pending) while a
\* submitBid on that job could still succeed; requestBidPriceReveal succeeds
\* only when the job is BiddingClosed or the bidding deadline is reached,
\* which excludes the status and clock conditions of submitBid; and once an
\* existing job is outside those conditions it never returns to them.
C31_SealedUntilBiddingEnds ==
  [][\A j \in JobIds :
       /\ Sealed(j)
       /\ Sealed(j)'
       /\ \A s \in Users, c \in CarrierInputs :
            requestBidPriceReveal(s, j, c) =>
              (RevealWindowReached(j) /\ ~BiddingWindow(j))
       /\ (validJobId(j) /\ ~BiddingWindow(j)) =>
            (~BiddingWindow(j)' /\ ~BiddingOpen(j)'
               /\ freightJobs'[j].biddingEndTime = freightJobs[j].biddingEndTime)]_vars

\* A bid was revealed on a job that nobody closed: its status is still Open
\* and only the clock, at the bidding deadline, ended the bidding.
C31_Witness ==
  \E j \in JobIds, c \in Users :
    /\ jobBids[j][c].isRevealed
    /\ freightJobs[j].status = "Open"
    /\ now >= freightJobs[j].biddingEndTime

\* C32 (as claimed): the comparison is asymmetric; for no two bids a and b of
\* one job do compareBidsEncrypted(a, b) and compareBidsEncrypted(b, a) both
\* decrypt to true.
C32_ComparatorAsymmetric ==
  \A j \in JobIds, a \in ScenarioCarriers, b \in ScenarioCarriers :
    (/\ compareBidsEncryptedRequires(freightJobs[j].shipper, j, a, b)
     /\ compareBidsEncryptedRequires(freightJobs[j].shipper, j, b, a)) =>
      ~(compareBidsEncrypted(j, a, b) /\ compareBidsEncrypted(j, b, a))

\* Sum of the values of the function f over the finite set S of its arguments.
RECURSIVE SumOf(_, _)
SumOf(f, S) ==
  IF S = {} THEN 0
  ELSE LET x == CHOOSE y \in S : TRUE IN f[x] + SumOf(f, S \ {x})

\* The accounts on the bidder list of job j.
ListedBidders(j) == {jobBidders[j][i] : i \in 1..Len(jobBidders[j])}

\* C33: for each job the bidder list has no duplicates and lists exactly the
\* carriers whose bid has hasSubmitted = true; totalBidsSubmitted equals the
\* sum of the bidder-list lengths over all jobs and the sum of totalBids over
\* all carrier profiles.
C33_BidAccounting ==
  /\ \A j \in ScenarioJobKeys :
       /\ Cardinality(ListedBidders(j)) = Len(jobBidders[j])
       /\ ListedBidders(j) = {c \in AllAddr : jobBids[j][c].hasSubmitted}
  /\ totalBidsSubmitted =
       SumOf([j \in ScenarioJobKeys |-> Len(jobBidders[j])], ScenarioJobKeys)
  /\ totalBidsSubmitted =
       SumOf([a \in AllAddr |-> carrierProfiles[a].totalBids], AllAddr)

\* Three bids over two jobs: one carrier bid on both jobs, the other on one.
C33_Witness ==
  /\ totalBidsSubmitted = 3
  /\ \E a \in ScenarioCarriers, b \in ScenarioCarriers :
       /\ carrierProfiles[a].totalBids = 2
       /\ carrierProfiles[b].totalBids = 1
       /\ Len(jobBidders[1]) + Len(jobBidders[2]) = 3

\* The accounts whose carrier profile is verified and active.
ActiveCarriers ==
  {a \in AllAddr : carrierProfiles[a].isVerified /\ carrierProfiles[a].isActive}

\* C34: totalActiveCarriers is the number of accounts whose carrier profile
\* is verified and active; it is never negative, a deactivation succeeds only
\* while it is positive, and no account is active without being verified.
C34_ActiveCarrierCount ==
  /\ totalActiveCarriers = Cardinality(ActiveCarriers)
  /\ totalActiveCarriers >= 0
  /\ \A a \in AllAddr : carrierProfiles[a].isActive => carrierProfiles[a].isVerified
  /\ \A s \in Users, a \in RoleInputs :
       ENABLED deactivateCarrier(s, a) => (a \in ActiveCarriers /\ totalActiveCarriers > 0)
  /\ \A s \in Users, a \in RoleInputs :
       ENABLED verifyCarrier(s, a) => a \notin ActiveCarriers

\* Two carriers were verified and one of them was deactivated afterwards.
C34_Witness ==
  /\ totalActiveCarriers = 1
  /\ \E a \in RoleInputs, b \in RoleInputs :
       /\ a \in ActiveCarriers
       /\ carrierProfiles[b].isVerified /\ ~carrierProfiles[b].isActive

\* The carrier (shipper) profile of account a was verified and then deactivated.
DeactivatedCarrier(a) ==
  carrierProfiles[a].isVerified /\ ~carrierProfiles[a].isActive
DeactivatedShipper(a) ==
  shipperProfiles[a].isVerified /\ ~shipperProfiles[a].isActive

\* C35: a deactivated carrier or shipper profile stays deactivated through
\* every step, verifyCarrier and verifyShipper fail on it for every caller,
\* and no step clears a verification flag, changes joinedAt or lowers a
\* counter of a verified profile.
C35_DeactivationPermanent ==
  [][\A a \in Users :
       /\ DeactivatedCarrier(a) =>
            /\ DeactivatedCarrier(a)'
            /\ \A s \in Users : ~verifyCarrier(s, a)
       /\ DeactivatedShipper(a) =>
            /\ DeactivatedShipper(a)'
            /\ \A s \in Users : ~verifyShipper(s, a)
       /\ carrierProfiles[a].isVerified =>
            /\ carrierProfiles'[a].isVerified
            /\ carrierProfiles'[a].joinedAt = carrierProfiles[a].joinedAt
            /\ carrierProfiles'[a].totalBids >= carrierProfiles[a].totalBids
            /\ carrierProfiles'[a].wonBids >= carrierProfiles[a].wonBids
            /\ carrierProfiles'[a].completedJobs >= carrierProfiles[a].completedJobs
       /\ shipperProfiles[a].isVerified =>
            /\ shipperProfiles'[a].isVerified
            /\ shipperProfiles'[a].joinedAt = shipperProfiles[a].joinedAt
            /\ shipperProfiles'[a].totalJobsPosted >= shipperProfiles[a].totalJobsPosted
            /\ shipperProfiles'[a].totalJobsCompleted >=
                 shipperProfiles[a].totalJobsCompleted]_vars

\* A carrier that has bid and a shipper that has posted a job are both
\* deactivated, at a later clock value than they joined, while the contract
\* is not paused.
C35_Witness ==
  \E c \in Users, s \in Users :
    /\ DeactivatedCarrier(c) /\ carrierProfiles[c].totalBids > 0
    /\ DeactivatedShipper(s) /\ shipperProfiles[s].totalJobsPosted > 0
    /\ now > shipperProfiles[s].joinedAt
    /\ ~paused

\* C36 (as claimed): in the basic contract an Awarded job keeps its status
\* and its finalPrice through every step, and awardJob succeeds only on a job
\* whose status is BiddingClosed.
C36_BasicAwardIsFinal ==
  [][\A j \in JobIds :
       /\ freightJobs[j].status = "Awarded" =>
            /\ freightJobs'[j].status = "Awarded"
            /\ freightJobs'[j].finalPrice = freightJobs[j].finalPrice
       /\ \A s \in BasicSenders, c \in ScenarioCarriers :
            Basic_awardJob(s, j, c) => freightJobs[j].status = "BiddingClosed"]_vars

\* Number of calls admitted for key so far whose timestamp is less than
\* windowMs old.
AdmittedWithin(key, windowMs) == Len(FilterWindow(admitted[key], windowMs))

\* C37 (as claimed): checkRateLimit(key, maxRequests, windowMs) returns true
\* only if fewer than maxRequests earlier admitted calls for the same key are
\* less than windowMs old; a rejected call records nothing; and a call leaves
\* the timestamps recorded for every other key as they were.
C37_SlidingWindow ==
  [][\A key \in RateKeys, maxRequests \in RateLimits, windowMs \in RateWindows :
       checkRateLimit(key, maxRequests, windowMs) =>
         /\ lastCall'.result => AdmittedWithin(key, windowMs) < maxRequests
         /\ ~lastCall'.result => requestTimestamps' = requestTimestamps
         /\ \A other \in RateKeys \ {key} :
              requestTimestamps'[other] = requestTimestamps[other]]_vars

\* C38 (as claimed): every getFhevmInstance(chainId) call that returns,
\* returns an instance created for the chain id it was called with.
C38_InstanceForRequestedChain ==
  \A i \in 1..Len(calls) :
    calls[i].pc = "returned" => calls[i].result.chainId = calls[i].chainId

\* C39 (as claimed): since the last resetFhevmInstance (or module load)
\* createFhevmInstance has been invoked at most once and all getFhevmInstance
\* calls that returned have returned the same instance.
C39_SingletonCache ==
  /\ createdSinceReset <= 1
  /\ Cardinality(returnedSinceReset) <= 1

\* C40 (as claimed): whenever the mounted component's hook reports
\* isReady = true with an instance, that instance was created for the current
\* config.chainId.
C40_ReadyInstanceMatchesChain ==
  (mounted = "mounted" /\ useFhevm.isReady /\ useFhevm.fhevm # Null) =>
    useFhevm.fhevm.chainId = config.chainId

====
